---- MODULE Spec2Model ----
(***************************************************************************)
(* jsondp: the binary codec for JSON documents of EnormousCloud/btxs.       *)
(*                                                                         *)
(* A writer appends the encodings of JSON values to a byte stream and a    *)
(* reader decodes values from that stream, both with the same field and    *)
(* value dictionaries.  encode_value and decode are the pure functions of  *)
(* jsondp/src/encode.rs and jsondp/src/lib.rs, translated branch by        *)
(* branch.                                                                 *)
(*                                                                         *)
(* Representation.                                                         *)
(*   - a byte is an integer 0..255, a string is the sequence of its bytes; *)
(*   - an unsigned machine integer (u16, u32, u64, u128) is the sequence   *)
(*     of its base-256 digits, most significant first, so to_be_bytes is   *)
(*     the digits and to_le_bytes their reversal (TLC integers are 32 bit  *)
(*     wide and cannot hold a u64);                                        *)
(*   - a serde_json Number is PosInt (u64 digits), NegInt (the two's       *)
(*     complement digits of a negative i64) or Float (the digits of the    *)
(*     IEEE-754 bit pattern);                                              *)
(*   - a JSON value is a record [t, s, a, k]: t the variant, s the bytes   *)
(*     of a string or the digits of a number, a the elements of an array   *)
(*     or the member values of an object, k the member keys of an object   *)
(*     in iteration order.                                                 *)
(***************************************************************************)
EXTENDS Integers, Sequences, FiniteSets, TLC

VARIABLES
    fd,       \* the field dictionary handed to encode and decode
    vd,       \* the value dictionary handed to encode and decode
    stream,   \* the bytes the writer has accepted so far
    log,      \* one record per encode call: the value, the result, the frame
    rpos,     \* the number of bytes the reader has consumed
    decoded,  \* one record per decode call: the result and the bytes it read
    eth       \* the position and the locals of EthLogsStream::next

vars == <<fd, vd, stream, log, rpos, decoded, eth>>

\* the strings of encode.rs and of the tests of encode.rs and lib.rs
Lit ==
    [a |-> <<97>>,
     alpha |-> <<97, 108, 112, 104, 97>>,
     beta |-> <<98, 101, 116, 97>>,
     gamma |-> <<103, 97, 109, 109, 97>>,
     epsilon |-> <<101, 112, 115, 105, 108, 111, 110>>,
     omega |-> <<111, 109, 101, 103, 97>>,
     one |-> <<111, 110, 101>>,
     two |-> <<116, 119, 111>>,
     example |-> <<101, 120, 97, 109, 112, 108, 101>>,
     test |-> <<116, 101, 115, 116>>,
     hello |-> <<72, 101, 108, 108, 111>>,
     hex1ff |-> <<48, 120, 49, 102, 102>>,
     hexzz |-> <<48, 120, 122, 122>>,
     type |-> <<116, 121, 112, 101>>,
     hex |-> <<104, 101, 120>>,
     BigNumber |-> <<66, 105, 103, 78, 117, 109, 98, 101, 114>>,
     hexaddr |-> <<48, 120, 97, 48, 98, 56, 54, 57, 57, 49, 99, 54, 50, 49, 56, 98, 51, 54, 99, 49, 100, 49, 57, 100, 52, 97, 50, 101, 57, 101, 98, 48, 99, 101, 51, 54, 48, 54, 101, 98, 52, 56>>,
     hexaddr_checksum |-> <<48, 120, 65, 48, 98, 56, 54, 57, 57, 49, 99, 54, 50, 49, 56, 98, 51, 54, 99, 49, 100, 49, 57, 68, 52, 97, 50, 101, 57, 69, 98, 48, 99, 69, 51, 54, 48, 54, 101, 66, 52, 56>>]

(***************************************************************************)
(* Bytes and machine integers                                              *)
(***************************************************************************)

Zeros(n) == [i \in 1..n |-> 0]

Reverse(s) == [i \in 1..Len(s) |-> s[Len(s) + 1 - i]]

\* a & b on bytes
BitAnd(a, b) ==
    LET B(i) == ((a \div (2 ^ i)) % 2) * ((b \div (2 ^ i)) % 2) * (2 ^ i)
    IN  B(0) + B(1) + B(2) + B(3) + B(4) + B(5) + B(6) + B(7)

\* a | b on bytes
BitOr(a, b) == a + b - BitAnd(a, b)

\* the digits (most significant first) of a u32 held as an integer
to_be_bytes(n, w) == [i \in 1..w |-> (n \div (256 ^ (w - i))) % 256]

\* n.to_le_bytes() of an integer held as an integer, w bytes wide
to_le_bytes(n, w) == Reverse(to_be_bytes(n, w))

\* the integer a digit sequence of at most 4 digits (below 2^31) stands for
RECURSIVE digits_value(_)
digits_value(d) ==
    IF Len(d) = 0 THEN 0
    ELSE 256 * digits_value(SubSeq(d, 1, Len(d) - 1)) + d[Len(d)]

\* widening cast of an unsigned integer to w digits (u8 as u32, u16 as u32)
zero_extend(d, w) == Zeros(w - Len(d)) \o d

\* widening cast of a signed integer to w digits (i8 as i64, ...)
sign_extend(d, w) ==
    [i \in 1..(w - Len(d)) |-> IF d[1] >= 128 THEN 255 ELSE 0] \o d

(***************************************************************************)
(* The hex crate                                                           *)
(***************************************************************************)

\* the value of one hex digit, -1 for any other character
hex_val(c) ==
    IF c \in 48..57 THEN c - 48
    ELSE IF c \in 97..102 THEN c - 87
    ELSE IF c \in 65..70 THEN c - 55
    ELSE -1

\* hex::decode: an error on an odd length or a character that is no hex digit
hex_decode(chars) ==
    IF Len(chars) % 2 # 0 \/ \E i \in 1..Len(chars) : hex_val(chars[i]) < 0
    THEN [ok |-> FALSE, bytes |-> <<>>]
    ELSE [ok |-> TRUE,
          bytes |-> [i \in 1..(Len(chars) \div 2) |->
                        16 * hex_val(chars[2 * i - 1]) + hex_val(chars[2 * i])]]

hex_char(n) == IF n < 10 THEN 48 + n ELSE 87 + n

hex_char_upper(n) == IF n < 10 THEN 48 + n ELSE 55 + n

\* hex::encode_upper: two upper-case digits per byte
hex_encode_upper(bytes) ==
    [i \in 1..(2 * Len(bytes)) |->
        IF i % 2 = 1 THEN hex_char_upper(bytes[(i + 1) \div 2] \div 16)
        ELSE hex_char_upper(bytes[i \div 2] % 16)]

\* hex::encode: two lower-case digits per byte
hex_encode(bytes) ==
    [i \in 1..(2 * Len(bytes)) |->
        IF i % 2 = 1 THEN hex_char(bytes[(i + 1) \div 2] \div 16)
        ELSE hex_char(bytes[i \div 2] % 16)]

(***************************************************************************)
(* std::str::from_utf8 / String::from_utf8                                 *)
(***************************************************************************)

utf8_cont(b) == b \in 128..191

\* the length of the sequence a lead byte opens, 0 for a byte that opens none
utf8_len(b) ==
    IF b < 128 THEN 1
    ELSE IF b \in 194..223 THEN 2
    ELSE IF b \in 224..239 THEN 3
    ELSE IF b \in 240..244 THEN 4
    ELSE 0

\* the sequence opened at i is complete and well formed
utf8_seq_ok(s, i) ==
    LET n == utf8_len(s[i]) IN
    /\ n > 0
    /\ i + n - 1 <= Len(s)
    /\ \A j \in (i + 1)..(i + n - 1) : utf8_cont(s[j])
    /\ s[i] = 224 => s[i + 1] >= 160
    /\ s[i] = 237 => s[i + 1] <= 159
    /\ s[i] = 240 => s[i + 1] >= 144
    /\ s[i] = 244 => s[i + 1] <= 143

utf8_valid(s) ==
    \A i \in 1..Len(s) :
        IF utf8_cont(s[i])
        THEN \E j \in 1..3 :
                /\ i - j >= 1
                /\ utf8_len(s[i - j]) > j
                /\ \A m \in (i - j + 1)..i : utf8_cont(s[m])
        ELSE utf8_seq_ok(s, i)

(***************************************************************************)
(* serde_json::Value                                                       *)
(***************************************************************************)

Null == [t |-> "null", s |-> <<>>, a |-> <<>>, k |-> <<>>]

Bool(b) == [t |-> IF b THEN "true" ELSE "false", s |-> <<>>, a |-> <<>>, k |-> <<>>]

PosInt(digits) == [t |-> "pos", s |-> digits, a |-> <<>>, k |-> <<>>]

NegInt(digits) == [t |-> "neg", s |-> digits, a |-> <<>>, k |-> <<>>]

Float(digits) == [t |-> "f64", s |-> digits, a |-> <<>>, k |-> <<>>]

String(bytes) == [t |-> "str", s |-> bytes, a |-> <<>>, k |-> <<>>]

Array(items) == [t |-> "arr", s |-> <<>>, a |-> items, k |-> <<>>]

Object(keys, values) == [t |-> "obj", s |-> <<>>, a |-> values, k |-> keys]

\* Number::from of an unsigned integer of any width
number_from_unsigned(d) == PosInt(zero_extend(d, 8))

\* Number::from of a signed integer of any width: NegInt only when negative
number_from_signed(d) ==
    IF d[1] >= 128 THEN NegInt(sign_extend(d, 8)) ELSE PosInt(zero_extend(d, 8))

\* Number::from_f64: None for a NaN or an infinity (exponent bits all set)
f64_finite(d) == ~(d[1] % 128 = 127 /\ d[2] >= 240)

is_i64(v) == v.t = "neg" \/ (v.t = "pos" /\ v.s[1] < 128)

is_u64(v) == v.t = "pos"

is_f64(v) == v.t = "f64"

\* num::ToPrimitive to_u8 / to_u16 / to_u32 of a u64
fits_unsigned(d, w) == zero_extend(SubSeq(d, 9 - w, 8), 8) = d

\* num::ToPrimitive to_i8 / to_i16 / to_i32 of an i64: Some iff the value
\* is the sign extension of its low w digits
fits_signed(d, w) == sign_extend(SubSeq(d, 9 - w, 8), 8) = d

\* the low w digits of d: the value of an `as` narrowing cast
low_digits(d, w) == SubSeq(d, Len(d) + 1 - w, Len(d))

(***************************************************************************)
(* dictionary.rs                                                           *)
(***************************************************************************)

None == [some |-> FALSE, id |-> 0, buf |-> <<>>]

SomeId(i) == [some |-> TRUE, id |-> i, buf |-> <<>>]

SomeBuf(b) == [some |-> TRUE, id |-> 0, buf |-> b]

\* BTreeMap::insert
map_put(f, x, y) == [z \in (DOMAIN f) \cup {x} |-> IF z = x THEN y ELSE f[z]]

\* MapDictionary::new; a NoDictionary answers every lookup as this one does
new_dictionary == [v |-> <<>>, k |-> <<>>]

NoDictionary == new_dictionary

insert_as(d, item, index) ==
    [v |-> map_put(d.v, index, item), k |-> map_put(d.k, item, index)]

insert(d, item) == insert_as(d, item, 1 + Cardinality(DOMAIN d.v))

RECURSIVE from_strings(_)
from_strings(input) ==
    IF Len(input) = 0 THEN new_dictionary
    ELSE insert(from_strings(SubSeq(input, 1, Len(input) - 1)), input[Len(input)])

\* DictionaryRead::get, the id given as an integer
get(d, index) ==
    IF index \in DOMAIN d.v THEN SomeBuf(d.v[index]) ELSE None

\* DictionaryRead::get, the id given by its digits; the dictionaries of the
\* model hold no id of 2^31 or more
get_digits(d, digits) ==
    IF zero_extend(digits, 4)[1] >= 128 THEN None
    ELSE get(d, digits_value(zero_extend(digits, 4)))

find_str(d, value) ==
    IF value \in DOMAIN d.k THEN SomeId(d.k[value]) ELSE None

\* blockchain.rs: the names of the built-in dictionary, as the BTreeMap
\* iterates over them, each with its id
DICTIONARY ==
    <<<<<<97, 99, 99, 101, 115, 115, 76, 105, 115, 116>>, 44>>,   \* accessList
      <<<<97, 100, 100, 114, 101, 115, 115>>, 53>>,   \* address
      <<<<98, 97, 115, 101, 70, 101, 101, 80, 101, 114, 71, 97, 115>>, 11>>,   \* baseFeePerGas
      <<<<98, 108, 111, 99, 107, 72, 97, 115, 104>>, 30>>,   \* blockHash
      <<<<98, 108, 111, 99, 107, 78, 117, 109, 98, 101, 114>>, 31>>,   \* blockNumber
      <<<<99, 104, 97, 105, 110, 73, 100>>, 32>>,   \* chainId
      <<<<99, 111, 110, 116, 114, 97, 99, 116, 65, 100, 100, 114, 101, 115, 115>>, 49>>,   \* contractAddress
      <<<<99, 117, 109, 117, 108, 97, 116, 105, 118, 101, 71, 97, 115, 85, 115, 101, 100>>, 50>>,   \* cumulativeGasUsed
      <<<<99, 117, 114, 114, 101, 110, 116, 66, 108, 111, 99, 107>>, 4>>,   \* currentBlock
      <<<<100, 97, 116, 97>>, 54>>,   \* data
      <<<<100, 105, 102, 102, 105, 99, 117, 108, 116, 121>>, 12>>,   \* difficulty
      <<<<101, 102, 102, 101, 99, 116, 105, 118, 101, 71, 97, 115, 80, 114, 105, 99, 101>>, 51>>,   \* effectiveGasPrice
      <<<<101, 120, 116, 114, 97, 68, 97, 116, 97>>, 13>>,   \* extraData
      <<<<102, 114, 111, 109>>, 33>>,   \* from
      <<<<103, 97, 115>>, 34>>,   \* gas
      <<<<103, 97, 115, 76, 105, 109, 105, 116>>, 14>>,   \* gasLimit
      <<<<103, 97, 115, 80, 114, 105, 99, 101>>, 35>>,   \* gasPrice
      <<<<103, 97, 115, 85, 115, 101, 100>>, 15>>,   \* gasUsed
      <<<<104, 97, 115, 104>>, 16>>,   \* hash
      <<<<104, 105, 103, 104, 101, 115, 116, 66, 108, 111, 99, 107>>, 5>>,   \* highestBlock
      <<<<105, 100>>, 1>>,   \* id
      <<<<105, 110, 112, 117, 116>>, 36>>,   \* input
      <<<<106, 115, 111, 110, 114, 112, 99>>, 2>>,   \* jsonrpc
      <<<<107, 110, 111, 119, 110, 83, 116, 97, 116, 101, 115>>, 9>>,   \* knownStates
      <<<<108, 111, 103, 73, 110, 100, 101, 120>>, 55>>,   \* logIndex
      <<<<108, 111, 103, 115>>, 52>>,   \* logs
      <<<<108, 111, 103, 115, 66, 108, 111, 111, 109>>, 17>>,   \* logsBloom
      <<<<109, 97, 120, 70, 101, 101, 80, 101, 114, 71, 97, 115>>, 45>>,   \* maxFeePerGas
      <<<<109, 97, 120, 80, 114, 105, 111, 114, 105, 116, 121, 70, 101, 101, 80, 101, 114, 71, 97, 115>>, 46>>,   \* maxPriorityFeePerGas
      <<<<109, 105, 110, 101, 114>>, 18>>,   \* miner
      <<<<109, 105, 120, 72, 97, 115, 104>>, 19>>,   \* mixHash
      <<<<110, 111, 110, 99, 101>>, 20>>,   \* nonce
      <<<<110, 117, 109, 98, 101, 114>>, 21>>,   \* number
      <<<<112, 97, 114, 101, 110, 116, 72, 97, 115, 104>>, 22>>,   \* parentHash
      <<<<112, 117, 108, 108, 101, 100, 83, 116, 97, 116, 101, 115>>, 10>>,   \* pulledStates
      <<<<114>>, 37>>,   \* r
      <<<<114, 101, 99, 101, 105, 112, 116, 115, 82, 111, 111, 116>>, 23>>,   \* receiptsRoot
      <<<<114, 101, 109, 111, 118, 101, 100>>, 56>>,   \* removed
      <<<<114, 101, 115, 117, 108, 116>>, 3>>,   \* result
      <<<<115>>, 38>>,   \* s
      <<<<115, 104, 97, 51, 85, 110, 99, 108, 101, 115>>, 24>>,   \* sha3Uncles
      <<<<115, 105, 122, 101>>, 25>>,   \* size
      <<<<115, 116, 97, 114, 116, 105, 110, 103, 66, 108, 111, 99, 107>>, 6>>,   \* startingBlock
      <<<<115, 116, 97, 116, 101, 82, 111, 111, 116>>, 26>>,   \* stateRoot
      <<<<115, 116, 97, 116, 117, 115>>, 59>>,   \* status
      <<<<116, 105, 109, 101, 115, 116, 97, 109, 112>>, 27>>,   \* timestamp
      <<<<116, 111>>, 39>>,   \* to
      <<<<116, 111, 112, 105, 99, 115>>, 57>>,   \* topics
      <<<<116, 111, 116, 97, 108, 68, 105, 102, 102, 105, 99, 117, 108, 116, 121>>, 28>>,   \* totalDifficulty
      <<<<116, 114, 97, 110, 115, 97, 99, 116, 105, 111, 110, 72, 97, 115, 104>>, 58>>,   \* transactionHash
      <<<<116, 114, 97, 110, 115, 97, 99, 116, 105, 111, 110, 73, 110, 100, 101, 120>>, 40>>,   \* transactionIndex
      <<<<116, 114, 97, 110, 115, 97, 99, 116, 105, 111, 110, 115>>, 29>>,   \* transactions
      <<<<116, 114, 97, 110, 115, 97, 99, 116, 105, 111, 110, 115, 82, 111, 111, 116>>, 47>>,   \* transactionsRoot
      <<<<116, 121, 112, 101>>, 41>>,   \* type
      <<<<117, 110, 99, 108, 101, 115>>, 48>>,   \* uncles
      <<<<118>>, 42>>,   \* v
      <<<<118, 97, 108, 117, 101>>, 43>>,   \* value
      <<<<119, 97, 114, 112, 67, 104, 117, 110, 107, 115, 65, 109, 111, 117, 110, 116>>, 7>>,   \* warpChunksAmount
      <<<<119, 97, 114, 112, 67, 104, 117, 110, 107, 115, 80, 114, 111, 99, 101, 115, 115, 101, 100>>, 8>>>>   \* warpChunksProcessed

\* get_dictionary: insert_as of every name with its id, in the order of the
\* table, into a new dictionary; of two entries with one id, or with one
\* name, the later one is the one that stays
get_dictionary ==
    LET last(c, x) == CHOOSE n \in 1..Len(DICTIONARY) :
                        /\ DICTIONARY[n][c] = x
                        /\ \A m \in (n + 1)..Len(DICTIONARY) : DICTIONARY[m][c] # x
    IN  [v |-> [i \in {DICTIONARY[n][2] : n \in 1..Len(DICTIONARY)} |->
                    DICTIONARY[last(2, i)][1]],
         k |-> [s \in {DICTIONARY[n][1] : n \in 1..Len(DICTIONARY)} |->
                    DICTIONARY[last(1, s)][2]]]

\* learn without the look-up of the key: every key is inserted
RECURSIVE learn_every_key(_, _, _)
learn_every_key(d, input, i) ==
    IF input.t \notin {"arr", "obj"} \/ i > Len(input.a) THEN d
    ELSE
        LET inner == learn_every_key(IF input.t = "arr" THEN d ELSE insert(d, input.k[i]),
                                     input.a[i], 1)
        IN  learn_every_key(inner, input, i + 1)

\* MapDictionary::learn: the keys of the objects of input that find_str does
\* not find are inserted, in iteration order, the members of one level
\* from the i-th on
RECURSIVE learn(_, _, _)
learn(d, input, i) ==
    IF input.t \notin {"arr", "obj"} \/ i > Len(input.a) THEN d
    ELSE
        LET known == input.t = "arr" \/ find_str(d, input.k[i]).some
            inner == learn(IF known THEN d ELSE insert(d, input.k[i]), input.a[i], 1)
        IN  learn(inner, input, i + 1)

\* {:?} of a string: between quotes, with '"', '\', '\t', '\n' and '\r'
\* escaped; the dictionaries of the model hold no other character that
\* Debug escapes
RECURSIVE fmt_debug(_, _)
fmt_debug(v, i) ==
    IF i = 0 THEN <<34>> \o fmt_debug(v, 1)
    ELSE IF i > Len(v) THEN <<34>>
    ELSE (CASE v[i] \in {34, 92} -> <<92, v[i]>>
            [] v[i] = 9 -> <<92, 116>>
            [] v[i] = 10 -> <<92, 110>>
            [] v[i] = 13 -> <<92, 114>>
            [] OTHER -> <<v[i]>>) \o fmt_debug(v, i + 1)

\* MapDictionary::write: "{}: {:?}\n" of every entry of v above the id
\* `after`, by increasing id
RECURSIVE write(_, _)
write(d, after) ==
    LET ids == {i \in DOMAIN d.v : i > after} IN
    IF ids = {} THEN <<>>
    ELSE
        LET k == CHOOSE i \in ids : \A j \in ids : i <= j
            n == CHOOSE l \in 1..10 : k < (10 ^ l) /\ (l = 1 \/ k >= (10 ^ (l - 1)))
        IN  [j \in 1..n |-> 48 + ((k \div (10 ^ (n - j))) % 10)]
                \o <<58, 32>> \o fmt_debug(d.v[k], 0) \o <<10>> \o write(d, k)

\* str::trim, of the white space of ASCII
trim(s) ==
    LET black == {j \in 1..Len(s) : s[j] \notin {9, 10, 11, 12, 13, 32}} IN
    IF black = {} THEN <<>>
    ELSE SubSeq(s, CHOOSE j \in black : \A m \in black : j <= m,
                   CHOOSE j \in black : \A m \in black : j >= m)

\* what is before and what is after the first ':'
split_at_colon(s) ==
    LET colons == {j \in 1..Len(s) : s[j] = 58} IN
    IF colons = {} THEN [some |-> FALSE, k |-> <<>>, v |-> <<>>]
    ELSE LET i == CHOOSE j \in colons : \A m \in colons : j <= m
         IN  [some |-> TRUE, k |-> SubSeq(s, 1, i - 1), v |-> SubSeq(s, i + 1, Len(s))]

\* k.parse::<u32>(): digits after an optional '+'.  A numeral of more than
\* 9 digits, which the integers of the model cannot hold, is taken as out
\* of range; the texts of the model hold none.
parse_u32(k) ==
    LET digits == IF Len(k) > 0 /\ k[1] = 43 THEN SubSeq(k, 2, Len(k)) ELSE k
        p == [j \in 1..9 |-> IF j + Len(digits) <= 9 THEN 0
                             ELSE digits[j + Len(digits) - 9] - 48]
    IN
    IF Len(digits) = 0 \/ Len(digits) > 9 \/ \E j \in 1..Len(digits) : digits[j] \notin 48..57
    THEN [ok |-> FALSE, index |-> 0]
    ELSE [ok |-> TRUE,
          index |-> 100000000 * p[1] + 10000000 * p[2] + 1000000 * p[3] + 100000 * p[4]
                    + 10000 * p[5] + 1000 * p[6] + 100 * p[7] + 10 * p[8] + p[9]]

\* MapDictionary::from, the dictionary out being read from the lines of the
\* text (the name `from` is a field of the log): a line ends
\* at '\n', is trimmed, is passed over when it is empty, starts with '#',
\* is not UTF-8 or has no ':', and makes the call fail when what is before
\* its ':' is not a u32
RECURSIVE from_text(_, _)
from_text(text, out) ==
    IF Len(text) = 0 THEN [ok |-> TRUE, dict |-> out]
    ELSE
        LET ends == {j \in 1..Len(text) : text[j] = 10}
            nl == IF ends = {} THEN Len(text) + 1
                  ELSE CHOOSE j \in ends : \A m \in ends : j <= m
            ln == trim(SubSeq(text, 1, nl - 1))
            rest == SubSeq(text, nl + 1, Len(text))
            kv == split_at_colon(ln)
        IN
        IF ~utf8_valid(SubSeq(text, 1, nl - 1)) \/ Len(ln) = 0 \/ ln[1] = 35 \/ ~kv.some
        THEN from_text(rest, out)
        ELSE IF ~parse_u32(kv.k).ok THEN [ok |-> FALSE, dict |-> new_dictionary]
        ELSE from_text(rest, insert_as(out, kv.v, parse_u32(kv.k).index))

(***************************************************************************)
(* encode.rs                                                               *)
(***************************************************************************)

byte_prefix(input) ==
    CASE input = "FALSE" -> 0
      [] input = "TRUE" -> 1
      [] input = "U8" -> 2
      [] input = "I8" -> 3
      [] input = "B8" -> 4
      [] input = "U16" -> 5
      [] input = "I16" -> 6
      [] input = "B16" -> 12
      [] input = "U32" -> 7
      [] input = "I32" -> 8
      [] input = "B32" -> 13
      [] input = "U64" -> 9
      [] input = "I64" -> 10
      [] input = "B64" -> 11
      [] input = "B128" -> 14
      [] input = "B160" -> 15
      [] input = "B256" -> 16
      [] input = "F64" -> 17
      [] input = "ZERO" -> 18
      [] input = "DS" -> 20
      [] input = "DB" -> 19
      [] input = "DA" -> 21
      [] input = "DO" -> 22
      [] input = "DWS" -> 24
      [] input = "DWB" -> 23
      [] input = "DWA" -> 25
      [] input = "DWO" -> 26
      [] input = "NULL" -> 31

\* The result of an encode call: st is "ok" (Ok returned), "err" (Err
\* returned) or "abort" (the call never returns: a panic on arithmetic
\* overflow in a build with overflow checks, and without them a loop that
\* writes zero bytes for 2^64 - 252 rounds); out is what the writer was given
\* before the call ended.
Wrote(out) == [st |-> "ok", out |-> out]

Failed(out) == [st |-> "err", out |-> out]

Aborted(out) == [st |-> "abort", out |-> out]

\* r1 then, had it returned Ok, r2: the `?` after a nested call
then(r1, r2) == IF r1.st = "ok" THEN [st |-> r2.st, out |-> r1.out \o r2.out] ELSE r1

with_0x(input) == Len(input) > 2 /\ input[1] = 48 /\ input[2] = 120

\* the branches B32 .. B256 of encode_string: the prefix, the bytes in
\* reverse, then `width - rev.len()` zero bytes; the subtraction is on usize
write_aligned(ch, width, out) ==
    LET rev == Reverse(out) IN
    IF width - Len(rev) < 0
    THEN Aborted(<<ch>> \o rev)
    ELSE Wrote(<<ch>> \o rev \o Zeros(width - Len(rev)))

\* the hex digits after "0x", with a '0' in front of an odd count, decoded
hex_payload(value) ==
    LET remainer == SubSeq(value, 3, Len(value))
        hexchars == IF Len(remainer) % 2 = 0 THEN remainer ELSE <<48>> \o remainer
    IN  hex_decode(hexchars)

encode_hex(value) ==
    LET dec == hex_payload(value)
        out == dec.bytes
    IN
    IF ~dec.ok THEN Failed(<<>>)
    ELSE IF Len(out) > 256 THEN
        LET size == Len(value) % 65536
            ch == byte_prefix("DWB")
            lo == size % 256
            hi == size \div 256
        IN  Wrote(<<ch>> \o <<lo, hi>> \o out)
    ELSE
        LET bytes_num == Len(out) % 256 IN
        IF bytes_num = 1 THEN Wrote(<<byte_prefix("B8")>> \o out)
        ELSE IF bytes_num = 2 THEN
            LET b16 == <<out[2], out[1]>>
            IN  Wrote(<<byte_prefix("B16")>> \o Reverse(b16))
        ELSE IF bytes_num <= 4 THEN write_aligned(byte_prefix("B32"), 4, out)
        ELSE IF bytes_num <= 8 THEN write_aligned(byte_prefix("B64"), 8, out)
        ELSE IF bytes_num <= 16 THEN write_aligned(byte_prefix("B128"), 16, out)
        ELSE IF bytes_num <= 20 THEN write_aligned(byte_prefix("B160"), 20, out)
        ELSE IF bytes_num <= 32 THEN write_aligned(byte_prefix("B256"), 32, out)
        ELSE Wrote(<<byte_prefix("DB")>> \o <<bytes_num>> \o out)

\* a string written with its bytes whatever the dictionary holds
encode_plain_inline(value, d) ==
    IF Len(value) > 256
    THEN Wrote(<<byte_prefix("DWS")>> \o to_le_bytes(Len(value) % 65536, 2) \o value)
    ELSE Wrote(<<byte_prefix("DS"), Len(value) % 256>> \o value)

encode_plain(value, d) ==
    IF Len(value) > 256 THEN
        LET size == Len(value) % 65536
            ch == byte_prefix("DWS")
            lo == size % 256
            hi == size \div 256
        IN  Wrote(<<ch>> \o <<lo, hi>> \o value)
    ELSE
        LET size == Len(value) % 256
            ch == byte_prefix("DS")
            found == find_str(d, value)
        IN
        IF found.some
        THEN Wrote(<<BitOr(ch, 32)>> \o to_le_bytes(found.id, 4))
        ELSE Wrote(<<ch, Len(value) % 256>> \o value)

encode_string(value, d) ==
    IF with_0x(value) THEN encode_hex(value) ELSE encode_plain(value, d)

\* an i64 written as I64 whatever its size
encode_i64_wide(v) ==
    IF v = Zeros(8) THEN Wrote(<<byte_prefix("ZERO")>>)
    ELSE Wrote(<<byte_prefix("I64")>> \o Reverse(v))

\* the branch `value.is_i64()` of encode_number
encode_i64(v) ==
    IF v = Zeros(8) THEN Wrote(<<byte_prefix("ZERO")>>)
    ELSE IF fits_signed(v, 1) THEN Wrote(<<byte_prefix("I8"), v[8]>>)
    ELSE IF fits_signed(v, 2) THEN
        LET v16 == low_digits(v, 2)
            lo == v16[2]
            hi == v16[1]
        IN  Wrote(<<byte_prefix("I16"), lo, hi>>)
    ELSE IF fits_signed(v, 4) THEN
        Wrote(<<byte_prefix("I32")>> \o Reverse(low_digits(v, 4)))
    ELSE Wrote(<<byte_prefix("I64")>> \o Reverse(v))

\* the branch `value.is_u64()` of encode_number
encode_u64(v) ==
    IF v = Zeros(8) THEN Wrote(<<byte_prefix("ZERO")>>)
    ELSE IF fits_unsigned(v, 1) THEN Wrote(<<byte_prefix("U8"), v[8]>>)
    ELSE IF fits_unsigned(v, 2) THEN
        LET v16 == low_digits(v, 2)
            lo == v16[2]
            hi == v16[1]
        IN  Wrote(<<byte_prefix("U16"), lo, hi>>)
    ELSE IF fits_unsigned(v, 4) THEN
        Wrote(<<byte_prefix("U32")>> \o Reverse(low_digits(v, 4)))
    ELSE Wrote(<<byte_prefix("U64")>> \o Reverse(v))

\* the branch `value.is_f64()` of encode_number
encode_f64(v) == Wrote(<<byte_prefix("F64")>> \o Reverse(v))

\* an encoder of numbers that asks is_u64 before is_i64
encode_number_unsigned_first(value) ==
    IF is_u64(value) THEN encode_u64(value.s)
    ELSE IF is_i64(value) THEN encode_i64(value.s)
    ELSE IF is_f64(value) THEN encode_f64(value.s)
    ELSE Failed(<<>>)

encode_number(value) ==
    IF is_i64(value) THEN encode_i64(value.s)
    ELSE IF is_u64(value) THEN encode_u64(value.s)
    ELSE IF is_f64(value) THEN encode_f64(value.s)
    ELSE Failed(<<>>)

\* Map::get
map_get(value, key) ==
    IF \E i \in 1..Len(value.k) : value.k[i] = key
    THEN LET i == CHOOSE i \in 1..Len(value.k) : value.k[i] = key
         IN  [some |-> TRUE, val |-> value.a[i]]
    ELSE [some |-> FALSE, val |-> Null]

\* big_number: res is "some" (Ok(Some(out))), "none" (Ok(None)) or "err"
big_number(value) ==
    LET t == map_get(value, Lit.type)
        h == map_get(value, Lit.hex)
        no == [res |-> "none", out |-> <<>>]
    IN
    IF Len(value.k) # 2 THEN no
    ELSE IF t.some /\ t.val.t = "str" /\ t.val.s # Lit.BigNumber THEN no
    ELSE IF h.some /\ h.val.t = "str" THEN
        IF ~with_0x(h.val.s) THEN no
        ELSE LET dec == hex_payload(h.val.s) IN
             IF dec.ok THEN [res |-> "some", out |-> dec.bytes]
             ELSE [res |-> "err", out |-> <<>>]
    ELSE no

\* the results of a loop of encode calls with `?`: every result up to and
\* including the first that is not Ok, concatenated
RECURSIVE concat_results(_, _, _)
concat_results(rs, from, to) ==
    IF from > to THEN Wrote(<<>>)
    ELSE IF from = to THEN rs[from]
    ELSE LET mid == (from + to) \div 2
         IN  then(concat_results(rs, from, mid), concat_results(rs, mid + 1, to))

\* every id written as a u32
encode_field_id_u32(dict_id) ==
    Wrote(<<BitOr(192, byte_prefix("U32"))>> \o to_le_bytes(dict_id, 4))

\* the field-dictionary id of a key, written before the value
encode_field_id(dict_id) ==
    IF dict_id > 65535
    THEN Wrote(<<BitOr(192, byte_prefix("U32"))>> \o to_le_bytes(dict_id, 4))
    ELSE IF dict_id > 255
    THEN Wrote(<<BitOr(128, byte_prefix("U16"))>> \o to_le_bytes(dict_id % 65536, 2))
    ELSE Wrote(<<BitOr(64, byte_prefix("U8"))>> \o <<dict_id % 256>>)

\* the key of one object entry: its field-dictionary id, or the key itself
\* handed to encode_string
encode_key(key, f, d) ==
    LET found == find_str(f, key) IN
    IF found.some THEN encode_field_id(found.id) ELSE encode_string(key, d)

RECURSIVE encode_value(_, _, _)

encode_array(value, f, d) ==
    LET n == Len(value.a)
        head == IF n > 256
                THEN LET size == n % 65536
                     IN  <<byte_prefix("DWA")>> \o to_le_bytes(size, 2)
                ELSE LET size == n % 256
                     IN  <<byte_prefix("DA"), size>>
        items == [i \in 1..n |-> encode_value(value.a[i], f, d)]
    IN  then(Wrote(head), concat_results(items, 1, n))

encode_object(value, f, d) ==
    LET bn == big_number(value) IN
    IF bn.res = "some" THEN
        LET size == Len(bn.out) % 256
            ch == byte_prefix("DB")
        IN  Wrote(<<ch>> \o <<size>> \o bn.out)
    ELSE
        LET n == Len(value.k)
            size == n % 256
            ch == byte_prefix("DO")
            entries == [i \in 1..n |->
                           then(encode_key(value.k[i], f, d),
                                encode_value(value.a[i], f, d))]
        IN  then(Wrote(<<ch, size>>), concat_results(entries, 1, n))

encode_value(input, f, d) ==
    CASE input.t = "null" -> Wrote(<<byte_prefix("NULL")>>)
      [] input.t = "true" -> Wrote(<<byte_prefix("TRUE")>>)
      [] input.t = "false" -> Wrote(<<byte_prefix("FALSE")>>)
      [] input.t \in {"pos", "neg", "f64"} -> encode_number(input)
      [] input.t = "str" -> encode_string(input.s, d)
      [] input.t = "arr" -> encode_array(input, f, d)
      [] input.t = "obj" -> encode_object(input, f, d)

\* lib.rs encode: encode_value, then a flush of the writer
encode(input, f, d) == encode_value(input, f, d)

(***************************************************************************)
(* decode.rs: the readers.  A read is [ok, val, pos]: whether read_exact    *)
(* got its bytes, the value, and the count of bytes consumed so far.       *)
(* A step that uses the result of a call more than once is an operator     *)
(* that takes the result as a parameter.                                   *)
(***************************************************************************)

ShortRead == [ok |-> FALSE, val |-> <<>>, pos |-> 0]

\* a read that hands out the bytes there are and zeros for the rest
next_zero_filled(input, pos, bytes_to_read) ==
    [ok |-> TRUE,
     val |-> [i \in 1..bytes_to_read |->
                 IF pos + i <= Len(input) THEN input[pos + i] ELSE 0],
     pos |-> pos + bytes_to_read]

\* next: exactly bytes_to_read bytes, in stream order
next(input, pos, bytes_to_read) ==
    IF pos + bytes_to_read > Len(input) THEN ShortRead
    ELSE [ok |-> TRUE,
          val |-> SubSeq(input, pos + 1, pos + bytes_to_read),
          pos |-> pos + bytes_to_read]

\* first[w-1] << 8(w-1) | ... | first[0]: the first byte read is the least
\* significant digit
uint_of(first) ==
    IF first.ok THEN [first EXCEPT !.val = Reverse(first.val)] ELSE ShortRead

next_uint(input, pos, w) == uint_of(next(input, pos, w))

next_u8(input, pos) == next_uint(input, pos, 1)

next_u16(input, pos) == next_uint(input, pos, 2)

next_u32(input, pos) == next_uint(input, pos, 4)

next_u64(input, pos) == next_uint(input, pos, 8)

next_u128(input, pos) == next_uint(input, pos, 16)

\* String::from_utf8(b)? of the bytes read
str_of(b) == IF b.ok /\ utf8_valid(b.val) THEN b ELSE ShortRead

next_str(input, pos, bytes_to_read) == str_of(next(input, pos, bytes_to_read))

(***************************************************************************)
(* lib.rs: decode.  A result is [st, val, pos]: st is "ok" (Ok(val)),      *)
(* "err" (Err returned) or "abort" (a panic of an unwrap).                 *)
(***************************************************************************)

Decoded(val, pos) == [st |-> "ok", val |-> val, pos |-> pos]

DecodeErr == [st |-> "err", val |-> Null, pos |-> 0]

DecodeAbort == [st |-> "abort", val |-> Null, pos |-> 0]

Prefix0x == <<48, 120>>
    \* "0x"

\* Value::Number(Number::from(next_uN(input)?))
decode_unsigned(r) ==
    IF r.ok THEN Decoded(number_from_unsigned(r.val), r.pos) ELSE DecodeErr

\* Value::Number(Number::from(next_iN(input)?))
decode_signed(r) ==
    IF r.ok THEN Decoded(number_from_signed(r.val), r.pos) ELSE DecodeErr

\* Value::String(format!("0x{}", hex::encode(r.to_be_bytes())))
decode_hex_be(r) ==
    IF r.ok THEN Decoded(String(Prefix0x \o hex_encode(r.val)), r.pos) ELSE DecodeErr

\* a u16 rendered with to_be_bytes, as the wider tags are
decode_hex_u16_be(r) ==
    IF r.ok THEN Decoded(String(Prefix0x \o hex_encode(r.val)), r.pos) ELSE DecodeErr

\* Value::String(format!("0x{}", hex::encode(r.to_le_bytes())))
decode_hex_le(r) ==
    IF r.ok THEN Decoded(String(Prefix0x \o hex_encode(Reverse(r.val))), r.pos)
    ELSE DecodeErr

\* tags 15 and 16: lo, then hi, rendered hi then lo, each big-endian
hex_pair_of(lo, hi) ==
    IF lo.ok /\ hi.ok
    THEN Decoded(String(Prefix0x \o hex_encode(hi.val) \o hex_encode(lo.val)), hi.pos)
    ELSE DecodeErr

hex_pair_after(input, lo) == hex_pair_of(lo, next_u128(input, lo.pos))

decode_hex_pair(input, pos, lo_width) ==
    hex_pair_after(input, next_uint(input, pos, lo_width))

\* tags 19 and 23: a length, then that many bytes in stream order
blob_of(input, size) ==
    IF size.ok
    THEN decode_hex_be(next(input, size.pos, digits_value(size.val)))
    ELSE DecodeErr

decode_blob(input, pos, len_width) == blob_of(input, next_uint(input, pos, len_width))

\* String::from_utf8 of the bytes read: `invalid` is what bytes that are
\* not UTF-8 lead to (an Err with `?`, a panic with unwrap)
string_of(b, invalid) ==
    IF ~b.ok THEN DecodeErr
    ELSE IF utf8_valid(b.val) THEN Decoded(String(b.val), b.pos)
    ELSE invalid

sized_string(input, size, invalid) ==
    IF size.ok
    THEN string_of(next(input, size.pos, digits_value(size.val)), invalid)
    ELSE DecodeErr

\* tag 20 without a dictionary entry: a u8 length and the bytes
inline_string(input, pos) == sized_string(input, next_u8(input, pos), DecodeErr)

\* tag 20 with the flag set: the entry of the id when there is one,
\* otherwise the inline form after the id
string_found(input, dict_id, found) ==
    IF found.some THEN
        IF utf8_valid(found.buf) THEN Decoded(String(found.buf), dict_id.pos)
        ELSE DecodeErr
    ELSE inline_string(input, dict_id.pos)

string_by_id(input, dict_id, d) ==
    IF dict_id.ok THEN string_found(input, dict_id, get_digits(d, dict_id.val))
    ELSE DecodeErr

decode_short_string(input, pos, use_vd, d) ==
    IF use_vd THEN string_by_id(input, next_u32(input, pos), d)
    ELSE inline_string(input, pos)

\* tag 24: a u16 length and the bytes; from_utf8 is unwrapped
decode_long_string(input, pos) ==
    sized_string(input, next_u16(input, pos), DecodeAbort)

\* tag 17: Number::from_f64(next_f64(input)?).context("no item")?
decode_float(r) ==
    IF r.ok /\ f64_finite(r.val) THEN Decoded(Float(r.val), r.pos) ELSE DecodeErr

\* the order of String keys in a BTreeMap: byte-wise lexicographic
bytes_less(x, y) ==
    \E i \in 1..Len(y) :
        /\ \A j \in 1..(i - 1) : j <= Len(x) /\ x[j] = y[j]
        /\ i > Len(x) \/ x[i] < y[i]

\* Map::new and the m.insert(field, value) calls of decode_object, in the
\* order of the entries: a later value replaces an earlier one of the same
\* key.  An object is held with its keys in increasing order, the iteration
\* order of the BTreeMap behind serde_json's Map; with the preserve_order
\* feature the order is that of insertion and Value's equality ignores it,
\* and the two agree on every object whose keys were inserted in increasing
\* order.
key_set(keys) == {keys[i] : i \in 1..Len(keys)}

\* each key with the number of keys below it
ranked_keys(K) == {<<Cardinality({y \in K : bytes_less(y, x)}), x>> : x \in K}

keys_in_order(ranked) ==
    [r \in 1..Cardinality(ranked) |-> (CHOOSE p \in ranked : p[1] = r - 1)[2]]

\* the index of the last entry of key x
last_index(keys, x) ==
    CHOOSE i \in 1..Len(keys) :
        keys[i] = x /\ \A j \in (i + 1)..Len(keys) : keys[j] # x

map_of(keys, values, sorted) ==
    Object(sorted, [r \in 1..Len(sorted) |-> values[last_index(keys, sorted[r])]])

\* entries that arrive in increasing key order are the map as they stand
increasing(keys) == \A i \in 1..(Len(keys) - 1) : bytes_less(keys[i], keys[i + 1])

map_from_entries(keys, values) ==
    IF increasing(keys) THEN Object(keys, values)
    ELSE map_of(keys, values, keys_in_order(ranked_keys(key_set(keys))))

FieldErr == [st |-> "err", key |-> <<>>, pos |-> 0]

\* Some(found) => std::str::from_utf8(found)?.to_string(), None => bail!
field_found(found, pos) ==
    IF found.some /\ utf8_valid(found.buf)
    THEN [st |-> "ok", key |-> found.buf, pos |-> pos]
    ELSE FieldErr

field_by_id(f, dict_id) ==
    IF dict_id.ok THEN field_found(get_digits(f, dict_id.val), dict_id.pos)
    ELSE FieldErr

\* the id after the byte nb read as a u8 whatever the bits 0xc0 of nb
field_id_u8(input, nb) == next_u8(input, nb.pos)

\* the id after the byte nb: a u32, a u16 or a u8 by the bits 0xc0 of nb
field_id(input, nb) ==
    IF BitAnd(nb.val[1], 192) = 192 THEN next_u32(input, nb.pos)
    ELSE IF BitAnd(nb.val[1], 192) = 128 THEN next_u16(input, nb.pos)
    ELSE next_u8(input, nb.pos)

field_str(str) ==
    IF str.ok THEN [st |-> "ok", key |-> str.val, pos |-> str.pos] ELSE FieldErr

\* let sz = next_u8(input)? as usize; next_str(input, sz)?
field_inline(input, sz) ==
    IF sz.ok THEN field_str(next_str(input, sz.pos, digits_value(sz.val)))
    ELSE FieldErr

field_of(input, nb, f) ==
    IF ~nb.ok THEN FieldErr
    ELSE IF BitAnd(nb.val[1], 192) > 0 THEN field_by_id(f, field_id(input, nb))
    ELSE IF BitAnd(nb.val[1], 31) = 20 THEN field_inline(input, next_u8(input, nb.pos))
    ELSE FieldErr

\* the field name of one object entry: [st, key, pos]
decode_field(input, pos, f) == field_of(input, next_u8(input, pos), f)

RECURSIVE decode(_, _, _, _)
RECURSIVE decode_items(_, _, _, _, _)
RECURSIVE decode_entries(_, _, _, _, _)

items_of(r) == [st |-> r.st, vals |-> <<r.val>>, pos |-> r.pos]

items_join(l, r) ==
    IF l.st # "ok" THEN l
    ELSE [st |-> r.st, vals |-> l.vals \o r.vals, pos |-> r.pos]

items_after(input, l, size, f, d) ==
    IF l.st # "ok" THEN l
    ELSE items_join(l, decode_items(input, l.pos, size, f, d))

\* the loop `for _ in 0..size { vals.push(decode(input, fd, vd)?) }`:
\* [st, vals, pos].  The loop is cut in two halves, the second starting
\* where the first ended.
decode_items(input, pos, size, f, d) ==
    IF size = 0 THEN [st |-> "ok", vals |-> <<>>, pos |-> pos]
    ELSE IF size = 1 THEN items_of(decode(input, pos, f, d))
    ELSE items_after(input, decode_items(input, pos, size \div 2, f, d),
                     size - (size \div 2), f, d)

EntriesErr == [st |-> "err", keys |-> <<>>, vals |-> <<>>, pos |-> 0]

entry_of(field, value) ==
    [st |-> value.st, keys |-> <<field.key>>, vals |-> <<value.val>>,
     pos |-> value.pos]

entry_after(input, field, f, d) ==
    IF field.st # "ok" THEN EntriesErr
    ELSE entry_of(field, decode(input, field.pos, f, d))

entries_join(l, r) ==
    IF l.st # "ok" THEN l
    ELSE [st |-> r.st, keys |-> l.keys \o r.keys, vals |-> l.vals \o r.vals,
          pos |-> r.pos]

entries_after(input, l, size, f, d) ==
    IF l.st # "ok" THEN l
    ELSE entries_join(l, decode_entries(input, l.pos, size, f, d))

\* the loop of decode_object: [st, keys, vals, pos], cut in two halves
decode_entries(input, pos, size, f, d) ==
    IF size = 0 THEN [st |-> "ok", keys |-> <<>>, vals |-> <<>>, pos |-> pos]
    ELSE IF size = 1 THEN entry_after(input, decode_field(input, pos, f), f, d)
    ELSE entries_after(input, decode_entries(input, pos, size \div 2, f, d),
                       size - (size \div 2), f, d)

object_of(es) ==
    IF es.st = "ok" THEN Decoded(map_from_entries(es.keys, es.vals), es.pos)
    ELSE [st |-> es.st, val |-> Null, pos |-> 0]

decode_object(input, pos, size, f, d) ==
    object_of(decode_entries(input, pos, size, f, d))

array_of(items) ==
    IF items.st = "ok" THEN Decoded(Array(items.vals), items.pos)
    ELSE [st |-> items.st, val |-> Null, pos |-> 0]

sized_array(input, size, f, d) ==
    IF size.ok
    THEN array_of(decode_items(input, size.pos, digits_value(size.val), f, d))
    ELSE DecodeErr

\* tags 21 and 25
decode_array(input, pos, len_width, f, d) ==
    sized_array(input, next_uint(input, pos, len_width), f, d)

sized_object(input, size, f, d) ==
    IF size.ok
    THEN decode_object(input, size.pos, digits_value(size.val), f, d)
    ELSE DecodeErr

\* tags 22 and 26
decode_sized_object(input, pos, len_width, f, d) ==
    sized_object(input, next_uint(input, pos, len_width), f, d)

\* match nb & 0x1F
decode_code(input, p, code, use_vd, f, d) ==
    CASE code = 0 -> Decoded(Bool(FALSE), p)
      [] code = 1 -> Decoded(Bool(TRUE), p)
      [] code = 2 -> decode_unsigned(next_u8(input, p))
      [] code = 3 -> decode_signed(next_u8(input, p))
      [] code = 4 -> decode_hex_be(next_u8(input, p))
      [] code = 5 -> decode_unsigned(next_u16(input, p))
      [] code = 6 -> decode_signed(next_u16(input, p))
      [] code = 7 -> decode_unsigned(next_u32(input, p))
      [] code = 8 -> decode_signed(next_u32(input, p))
      [] code = 9 -> decode_unsigned(next_u64(input, p))
      [] code = 10 -> decode_signed(next_u64(input, p))
      [] code = 11 -> decode_hex_be(next_u64(input, p))
      [] code = 12 -> decode_hex_le(next_u16(input, p))
      [] code = 13 -> decode_hex_be(next_u32(input, p))
      [] code = 14 -> decode_hex_be(next_u128(input, p))
      [] code = 15 -> decode_hex_pair(input, p, 4)
      [] code = 16 -> decode_hex_pair(input, p, 16)
      [] code = 17 -> decode_float(next_u64(input, p))
      [] code = 18 -> Decoded(number_from_unsigned(<<0>>), p)
      [] code = 19 -> decode_blob(input, p, 1)
      [] code = 20 -> decode_short_string(input, p, use_vd, d)
      [] code = 23 -> decode_blob(input, p, 2)
      [] code = 24 -> decode_long_string(input, p)
      [] code = 21 -> decode_array(input, p, 1, f, d)
      [] code = 25 -> decode_array(input, p, 2, f, d)
      [] code = 22 -> decode_sized_object(input, p, 1, f, d)
      [] code = 26 -> decode_sized_object(input, p, 2, f, d)
      [] code = 31 -> Decoded(Null, p)
      [] OTHER -> DecodeErr

\* let nb = next_u8(input)?; let use_vd = (nb & 0x20) > 0;
decode_tagged(input, first, f, d) ==
    IF first.ok
    THEN decode_code(input, first.pos, BitAnd(first.val[1], 31),
                     BitAnd(first.val[1], 32) > 0, f, d)
    ELSE DecodeErr

decode(input, pos, f, d) == decode_tagged(input, next_u8(input, pos), f, d)

(***************************************************************************)
(* The inputs: the values of the crate's tests, and values on both sides   *)
(* of every size the encoder branches on.                                  *)
(***************************************************************************)

\* n lower-case hex digits, the first not 0
\* the hex-string "0x..." of n hex digits
HexString(n) == Prefix0x \o [i \in 1..n |-> hex_char((7 * i) % 16)]

\* a string of n ASCII letters
Text(n) == [i \in 1..n |-> 97 + (i % 26)]

\* the digits of a u64 below 2^31 given as an integer
U64(n) == zero_extend(to_be_bytes(n, 4), 8)

\* the digits of the i64 -m, for 1 <= m <= 2^31
NegI64(m) ==
    LET low == to_be_bytes((2147483647 - m) + 1, 4)
    IN  sign_extend(<<low[1] + 128, low[2], low[3], low[4]>>, 8)

Numbers ==
    {PosInt(U64(n)) : n \in {0, 1, 127, 128, 200, 255, 300, 32767, 32768,
                             50000, 65536, 2147483647}}
    \cup {NegInt(NegI64(m)) : m \in {1, 128, 129, 300, 32768, 32769, 50000}}
    \cup {PosInt(<<0, 0, 0, 1, 0, 0, 0, 49>>),                \* 50 + u32::MAX
          NegInt(<<255, 255, 255, 255, 127, 255, 255, 206>>), \* -50 + i32::MIN
          PosInt(<<127, 255, 255, 255, 255, 255, 255, 255>>), \* i64::MAX
          NegInt(<<128, 0, 0, 0, 0, 0, 0, 0>>),               \* i64::MIN
          PosInt(<<128, 0, 0, 0, 0, 0, 0, 0>>),               \* i64::MAX + 1
          PosInt(<<255, 255, 255, 255, 255, 255, 255, 255>>), \* u64::MAX
          Float(<<0, 0, 0, 0, 0, 0, 0, 0>>),                  \* 0.0
          Float(<<191, 240, 0, 0, 0, 0, 0, 0>>),              \* -1.0
          Float(<<66, 11, 240, 142, 176, 0, 0, 0>>)}          \* 1.5e10

\* hex-strings of 1 .. 257 bytes, on both sides of every size encode_string
\* branches on, with an even and an odd count of digits and with letters of
\* both cases
HexStrings ==
    {String(HexString(2 * n)) :
        n \in {1, 2, 3, 5, 8, 9, 16, 17, 21, 32, 33, 255, 256, 257}}
    \cup {String(h) : h \in {<<48, 120, 49>>,                       \* "0x1"
                             HexString(7), Lit.hexaddr, Lit.hexaddr_checksum}}

PlainStrings ==
    {String(x) : x \in {<<>>, Lit.a, Lit.hello, Lit.alpha, Lit.omega, Prefix0x,
                        <<48, 88, 48, 49>>,                        \* "0X01"
                        <<195, 169>>}}                             \* e acute
    \cup {String(Text(n)) : n \in {254, 255, 256, 257, 300}}

SmallInt(n) == PosInt(U64(n))

\* an array of n small numbers
ArrayOf(n) == Array([i \in 1..n |-> SmallInt(i % 3)])

Arrays ==
    {Array(<<>>),
     Array(<<SmallInt(0), SmallInt(1), SmallInt(2)>>),
     Array(<<SmallInt(0), SmallInt(1), SmallInt(2), SmallInt(3)>>),
     Array(<<String(Lit.one), String(Lit.two), String(Lit.omega)>>),
     Array(<<String(Lit.alpha), SmallInt(1), String(Lit.omega)>>),
     Array(<<String(Lit.alpha), String(Lit.beta), String(Lit.gamma)>>),
     Array(<<Array(<<>>), Array(<<Null, Bool(TRUE)>>)>>),
     Array(<<String(Lit.a), String(Lit.hexzz), String(Lit.a)>>)}
    \cup {ArrayOf(n) : n \in {254, 255, 256, 257}}

\* the n two-letter keys "aa", "ab", ... in increasing order
\* an object of n entries
ObjectOf(n) ==
    Object([i \in 1..n |-> <<97 + ((i - 1) \div 16), 97 + ((i - 1) % 16)>>],
           [i \in 1..n |-> SmallInt(i % 3)])

Objects ==
    {Object(<<>>, <<>>),
     Object(<<Lit.one, Lit.two>>, <<String(Lit.example), SmallInt(1)>>),
     Object(<<Lit.alpha>>, <<SmallInt(10)>>),
     Object(<<Lit.test>>, <<SmallInt(10)>>),
     Object(<<Lit.alpha, Lit.beta, Lit.epsilon, <<110, 111>>>>,       \* "no"
            <<String(Lit.test), SmallInt(1),
              Object(<<Lit.gamma>>, <<String(Lit.hello)>>),
              String(<<48, 120, 48, 49, 102, 102>>)>>),            \* "0x01ff"
     Object(<<Lit.hex, Lit.type>>, <<String(Lit.hex1ff), String(Lit.BigNumber)>>),
     Object(<<Lit.hex, Lit.type>>, <<String(Lit.hello), String(Lit.BigNumber)>>),
     Object(<<Lit.hex, Lit.type>>, <<String(Lit.hexzz), String(Lit.BigNumber)>>),
     Object(<<Lit.hex, Lit.type>>,
            <<String(Lit.hex1ff), String(<<78, 117, 109, 98, 101, 114>>)>>), \* "Number"
     Object(<<Lit.hex, Lit.type>>, <<String(Lit.hex1ff), SmallInt(1)>>),
     Object(<<Lit.hex, Lit.type>>, <<SmallInt(1), String(Lit.BigNumber)>>),
     Object(<<<<102, 111, 111>>, Lit.hex>>,                         \* "foo"
            <<SmallInt(1), String(Lit.hex1ff)>>),
     Object(<<Lit.hex>>, <<String(Lit.hex1ff)>>),
     Object(<<Lit.hex, Lit.type, <<122>>>>,                          \* "z"
            <<String(Lit.hex1ff), String(Lit.BigNumber), SmallInt(1)>>),
     Object(<<<<48, 120, 48, 49>>>>, <<SmallInt(1)>>),             \* "0x01"
     Object(<<Prefix0x>>, <<SmallInt(1)>>),
     Object(<<Lit.omega>>, <<String(Lit.alpha)>>)}
    \cup {ObjectOf(n) : n \in {255, 256, 257}}

\* a value of every variant
Values ==
    {Null, Bool(TRUE), Bool(FALSE), SmallInt(0), SmallInt(300),
     NegInt(NegI64(300)), Float(<<191, 240, 0, 0, 0, 0, 0, 0>>),
     String(Lit.hello), String(Lit.alpha),
     String(<<48, 120, 49, 48, 48>>),                              \* "0x100"
     String(Lit.hexaddr), String(HexString(600)), String(Text(256)),
     Array(<<String(Lit.alpha), SmallInt(1), String(Lit.omega)>>),
     Object(<<Lit.one, Lit.two>>, <<String(Lit.example), SmallInt(1)>>),
     Object(<<Lit.alpha>>, <<SmallInt(10)>>)}

\* the dictionaries a run is made with: none, the dictionary of the tests of
\* encode.rs for fields and values, and that dictionary for values alone
DictConfigs ==
    LET SampleDictionary ==
            from_strings(<<Lit.alpha, Lit.beta, Lit.gamma,
                           <<100, 101, 108, 116, 97>>,             \* "delta"
                           Lit.epsilon>>)
    IN  {[fd |-> NoDictionary, vd |-> NoDictionary],
         [fd |-> SampleDictionary, vd |-> SampleDictionary],
         [fd |-> NoDictionary, vd |-> SampleDictionary]}

(***************************************************************************)
(* The writer and the reader                                               *)
(***************************************************************************)

\* the number of values a run writes
MaxValues == 2

Init ==
    /\ \E c \in DictConfigs : fd = c.fd /\ vd = c.vd
    /\ stream = <<>>
    /\ log = <<>>
    /\ rpos = 0
    /\ decoded = <<>>
    /\ eth = None

\* encode(v, &mut stream, &fd, &vd); no call follows one that did not return
Encode(v) ==
    /\ Len(log) < MaxValues
    /\ \A i \in 1..Len(log) : log[i].st # "abort"
    /\ LET r == encode(v, fd, vd) IN
        /\ stream' = stream \o r.out
        /\ log' = Append(log, [v |-> v, st |-> r.st,
                               from |-> Len(stream),
                               to |-> Len(stream) + Len(r.out)])
    /\ UNCHANGED <<fd, vd, rpos, decoded, eth>>

\* decode(&mut stream, &fd, &vd) where the reader stands: one call per value
\* written, and none after a call that failed
Decode ==
    /\ Len(decoded) < Len(log)
    /\ \A i \in 1..Len(decoded) : decoded[i].st = "ok"
    /\ LET r == decode(stream, rpos, fd, vd)
           to == IF r.st = "ok" THEN r.pos ELSE rpos
       IN
        /\ decoded' = Append(decoded, [st |-> r.st, val |-> r.val,
                                       from |-> rpos, to |-> to])
        /\ rpos' = to
    /\ UNCHANGED <<fd, vd, stream, log, eth>>

Next ==
    \/ \E v \in Values : Encode(v)
    \/ Decode

Spec == Init /\ [][Next]_vars

SpecNum == Init /\ [][(\E v \in Numbers : Encode(v)) \/ Decode]_vars

SpecHex == Init /\ [][(\E v \in HexStrings : Encode(v)) \/ Decode]_vars

SpecStr == Init /\ [][(\E v \in PlainStrings : Encode(v)) \/ Decode]_vars

SpecArr == Init /\ [][(\E v \in Arrays : Encode(v)) \/ Decode]_vars

SpecObj == Init /\ [][(\E v \in Objects : Encode(v)) \/ Decode]_vars

\* a string one byte longer than a u16 can count, among short values
SpecLong ==
    Init /\ [][(\E v \in {String(Text(65536)), String(<<>>), String(Lit.a),
                            String(Lit.hello), Array(<<>>), Null, SmallInt(0)} :
                    Encode(v)) \/ Decode]_vars

\* bytes of a peer, by what they are on the wire
Wire ==
    LET whole ==      \* complete encodings
        {<<3, 10>>, <<8, 80, 195, 0, 0>>, <<17, 0, 0, 0, 0, 0, 0, 240, 191>>,
         <<12, 1, 0>>, <<19, 2, 1, 255>>, <<23, 2, 0, 1, 255>>,
         <<20, 2, 104, 105>>, <<24, 2, 0, 104, 105>>, <<52, 1, 0, 0, 0>>,
         <<21, 2, 18, 3, 10>>, <<25, 1, 0, 31>>, <<22, 1, 66, 1, 3, 10>>,
         <<26, 1, 0, 20, 1, 97, 1>>,
         <<22, 1, 20, 1, 97, 21, 2, 0, 22, 1, 20, 1, 98, 20, 1, 99>>}
    IN
    [whole |-> whole,
     \* the input ends before the value is complete: every proper prefix of
     \* a complete encoding
     cut |-> {SubSeq(f, 1, n) : <<f, n>> \in {p \in whole \X (0..15) : p[2] < Len(p[1])}},
     reserved |->     \* a tag of code 27 .. 30, alone and nested
        {<<27>>, <<28>>, <<29>>, <<30>>, <<59>>, <<94>>, <<21, 2, 18, 27>>,
         <<22, 1, 20, 1, 97, 21, 1, 29>>},
     key |->          \* an inline key that is not DS
        {<<22, 1, 4, 1, 3, 1>>, <<22, 1, 24, 1, 0, 97, 18>>, <<22, 1, 18, 18>>,
         <<21, 1, 22, 2, 20, 1, 97, 18, 31, 18>>},
     dangling |->     \* a field id that no dictionary of the model holds
        {<<22, 1, 66, 9, 3, 10>>, <<22, 1, 133, 9, 0, 18>>,
         <<22, 1, 199, 9, 0, 0, 0, 18>>,
         <<22, 2, 20, 1, 97, 18, 66, 9, 18>>},
     miss |->         \* DS with 0x20 set and an id that no dictionary holds
        {<<52, 9, 0, 0, 0, 1, 97>>, <<52, 9, 0, 0, 0, 0>>,
         <<21, 1, 52, 9, 0, 0, 0, 2, 104, 105>>},
     utf8 |->         \* a string payload that is not UTF-8
        {<<20, 1, 255>>, <<20, 2, 195, 40>>, <<24, 1, 0, 255>>,
         <<22, 1, 20, 1, 255, 18>>, <<21, 1, 24, 2, 0, 195, 40>>}]

\* decode reads from any reader: bytes of a peer arrive on the stream once
\* the reader has been through what came before, so that a decode call sees
\* the input end where the frame ends
Receive(frame) ==
    /\ Len(log) < MaxValues
    /\ Len(decoded) = Len(log)
    /\ stream' = stream \o frame
    /\ log' = Append(log, [v |-> Null, st |-> "wire",
                           from |-> Len(stream),
                           to |-> Len(stream) + Len(frame)])
    /\ UNCHANGED <<fd, vd, rpos, decoded, eth>>

SpecWire ==
    Init /\ [][(\E frame \in UNION {Wire[c] : c \in DOMAIN Wire} :
                    Receive(frame)) \/ Decode]_vars

\* A run with a dictionary whose ids take one, two and four bytes, and that
\* holds a hex-string and a string of 255 bytes, for the fields and for the
\* values or for the fields alone
InitIds ==
    /\ fd = insert_as(insert_as(insert_as(insert_as(insert_as(insert_as(
                insert_as(insert_as(new_dictionary,
                    Lit.alpha, 1), Lit.hex1ff, 7), Lit.beta, 255), Lit.gamma, 256),
                    Text(255), 300), Lit.epsilon, 65535), Lit.omega, 65536),
                    Lit.one, 16777216)
    /\ vd \in {fd, NoDictionary}
    /\ stream = <<>>
    /\ log = <<>>
    /\ rpos = 0
    /\ decoded = <<>>
    /\ eth = None

SpecIds ==
    InitIds /\ [][(\E v \in
        {String(Lit.alpha), String(Lit.beta), String(Lit.omega), String(Lit.one),
         String(Text(255)), String(Lit.hex1ff), String(Lit.hello),
         Array(<<String(Lit.alpha), String(Lit.omega), String(Lit.hello),
                 String(Lit.one)>>),
         Array(<<String(Lit.gamma), String(Lit.epsilon)>>)}
        \cup {Object(<<key>>, <<SmallInt(10)>>) :
                key \in {Lit.alpha, Lit.beta, Lit.gamma, Lit.epsilon, Lit.omega, Lit.one}}
        \cup {Object(<<Lit.alpha, Lit.gamma, Lit.omega>>,
                     <<SmallInt(1), String(Lit.beta), Array(<<Null>>)>>),
              Object(<<Lit.gamma>>, <<Object(<<Lit.omega>>, <<Bool(TRUE)>>)>>)} :
            Encode(v)) \/ Decode]_vars

\* encode(v, &mut w, &fd, &vd) where w is what is left of a byte slice with
\* room for `room` more bytes: Write::write of a slice copies as many bytes
\* as there is room for and returns Ok with their number, which no caller
\* in encode.rs looks at, and flush returns Ok
EncodeInto(v, room) ==
    /\ Len(log) < MaxValues
    /\ LET r == encode(v, fd, vd)
           accepted == IF Len(r.out) <= room THEN r.out ELSE SubSeq(r.out, 1, room)
       IN
        /\ stream' = stream \o accepted
        /\ log' = Append(log, [v |-> v, st |-> r.st,
                               from |-> Len(stream),
                               to |-> Len(stream) + Len(accepted)])
    /\ UNCHANGED <<fd, vd, rpos, decoded, eth>>

SpecSlice ==
    Init /\ [][\E v \in {Null, SmallInt(0), SmallInt(300), String(Lit.hello),
                          String(Lit.alpha), String(Lit.hex1ff), String(Lit.hexzz),
                          Array(<<SmallInt(1), Null>>),
                          Object(<<Lit.alpha>>, <<SmallInt(10)>>)},
                   room \in 0..8 : EncodeInto(v, room)]_vars

\* the number of calls made on a dictionary
MaxOps == 2

\* Each call on the dictionary fd is entered in the log with its argument;
\* it writes nothing.
Insert(item) ==
    /\ Len(log) < MaxOps
    /\ fd' = insert(fd, item)
    /\ log' = Append(log, [v |-> String(item), st |-> "insert",
                           from |-> Len(stream), to |-> Len(stream)])
    /\ UNCHANGED <<vd, stream, rpos, decoded, eth>>

InsertAs(item, index) ==
    /\ Len(log) < MaxOps
    /\ fd' = insert_as(fd, item, index)
    /\ log' = Append(log, [v |-> String(item), st |-> "insert_as",
                           from |-> Len(stream), to |-> Len(stream)])
    /\ UNCHANGED <<vd, stream, rpos, decoded, eth>>

Learn(input) ==
    /\ Len(log) < MaxOps
    /\ fd' = learn(fd, input, 1)
    /\ log' = Append(log, [v |-> input, st |-> "learn",
                           from |-> Len(stream), to |-> Len(stream)])
    /\ UNCHANGED <<vd, stream, rpos, decoded, eth>>

\* let d = blockchain::get_dictionary()
GetDictionary ==
    /\ Len(log) < MaxOps
    /\ fd' = get_dictionary
    /\ log' = Append(log, [v |-> Null, st |-> "get_dictionary",
                           from |-> Len(stream), to |-> Len(stream)])
    /\ UNCHANGED <<vd, stream, rpos, decoded, eth>>

\* d.write(&mut stream)
Write ==
    /\ Len(log) < MaxOps
    /\ stream' = stream \o write(fd, 0)
    /\ log' = Append(log, [v |-> Null, st |-> "write", from |-> Len(stream),
                           to |-> Len(stream) + Len(write(fd, 0))])
    /\ UNCHANGED <<fd, vd, rpos, decoded, eth>>

\* let d = MapDictionary::from(&mut text)?: the dictionary read takes the
\* place of fd when the call returned Ok
From(text) ==
    /\ Len(log) < MaxOps
    /\ fd' = IF from_text(text, new_dictionary).ok
             THEN from_text(text, new_dictionary).dict ELSE fd
    /\ log' = Append(log, [v |-> String(text),
                           st |-> IF from_text(text, new_dictionary).ok THEN "from" ELSE "err",
                           from |-> Len(stream), to |-> Len(stream)])
    /\ UNCHANGED <<vd, stream, rpos, decoded, eth>>

\* the strings, ids, values and texts of the calls
Calls ==
    [items |-> {Lit.a, Lit.alpha, Lit.omega, <<105, 100>>},   \* "id"
     ids |-> {1, 2, 7},
     values |->
        {Object(<<Lit.epsilon, Lit.gamma, Lit.omega>>,
                <<String(Lit.alpha), SmallInt(1),
                  Object(<<<<122, 101, 116, 97>>>>, <<SmallInt(2)>>)>>),  \* "zeta"
         Array(<<Object(<<Lit.a>>, <<Null>>), Object(<<Lit.a, Lit.one>>, <<Null, Null>>)>>),
         String(Lit.omega)},
     texts |->
        {<<49, 58, 32, 34, 97, 108, 112, 104, 97, 34, 10, 50, 58, 32, 34, 98, 101, 116, 97, 34, 10>>,
            \* 1: "alpha" / 2: "beta"
         <<49, 58, 97, 10, 50, 58, 111, 109, 101, 103, 97>>,
            \* 1:a / 2:omega
         <<35, 32, 99, 10, 10, 32, 32, 55, 58, 111, 109, 101, 103, 97, 10>>,
            \* # c / (empty) / (blank) 7:omega
         <<49, 58, 97, 10, 49, 58, 111, 109, 101, 103, 97, 10>>,
            \* 1:a / 1:omega
         <<97, 10, 50, 58, 97, 10>>,
            \* a / 2:a
         <<49, 58, 97, 10, 120, 58, 97, 10>>,
            \* 1:a / x:a
         <<49, 32, 58, 97, 10>>}]
            \* 1 :a

SpecDict ==
    Init /\ [][\/ \E item \in Calls.items : Insert(item)
               \/ \E item \in Calls.items, index \in Calls.ids : InsertAs(item, index)
               \/ \E input \in Calls.values : Learn(input)
               \/ \E text \in Calls.texts : From(text)
               \/ Write
               \/ GetDictionary]_vars

(***************************************************************************)
(* The log stream of eth-logs.  A request is held as its id and its        *)
(* method, an entry of a batch response as its id, what it carries         *)
(* ("result", "error" or neither) and the result; an H256 is its 32 bytes  *)
(* and {:?} of it is "0x" and 64 lower-case digits.                        *)
(***************************************************************************)

get_block(hash) ==
    [id |-> <<98>> \o Prefix0x \o hex_encode(hash),          \* "b{:?}"
     method |-> "eth_getBlockByHash"]

get_transaction(hash) ==
    [id |-> <<120>> \o Prefix0x \o hex_encode(hash),         \* "x{:?}"
     method |-> "eth_getTransactionByHash"]

get_receipt(hash) ==
    [id |-> <<114>> \o Prefix0x \o hex_encode(hash),         \* "r{:?}"
     method |-> "eth_getTransactionReceipt"]

get_logs == [id |-> <<108>>, method |-> "eth_getLogs"]       \* "l"

\* RpcBatchResponse::value: the first entry of that id, and its result, its
\* error, or not-found when the entry has neither or there is no such entry
value(response, id) ==
    LET found == {i \in 1..Len(response) : response[i].id = id}
    IN  IF found = {} THEN [ok |-> FALSE, val |-> <<>>, err |-> "not_found"]
        ELSE LET v == response[CHOOSE i \in found : \A j \in found : i <= j]
             IN  IF v.has = "result" THEN [ok |-> TRUE, val |-> v.result, err |-> "none"]
                 ELSE IF v.has = "error"
                 THEN [ok |-> FALSE, val |-> <<>>, err |-> "rpc error"]
                 ELSE [ok |-> FALSE, val |-> <<>>, err |-> "not_found"]

\* the number of batches a run sends
MaxBatches == 4

\* the head of the while loop of next: the test of the loop, the batch of
\* get_logs, what the node sends back for it, and the lookup of the logs
GetLogs(response) ==
    /\ eth.pc = "while"
    /\ eth.sent < MaxBatches
    /\ IF eth.current_block >= eth.latest_block
       THEN eth' = [eth EXCEPT !.pc = "done", !.result = "Ok(None)"]
       ELSE LET requests == <<get_logs>>
                logs == value(response, <<108, 111, 103, 115>>)     \* "logs"
                sent == [eth EXCEPT
                    !.sent = @ + 1,
                    !.asked = [i \in 1..Len(requests) |-> requests[i].id],
                    !.looked = <<<<108, 111, 103, 115>>>>,
                    !.echoed = @ /\ Len(response) = 1
                                 /\ response[1].id = requests[1].id
                                 /\ response[1].has = "result"]
            IN  eth' = IF logs.ok
                       THEN [sent EXCEPT !.pc = "for", !.logs = logs.val, !.bm = <<>>]
                       ELSE [sent EXCEPT !.pc = "done", !.result = logs.err]
    /\ UNCHANGED <<fd, vd, stream, log, rpos, decoded>>

\* one turn of the loop over the logs: the block of the log is asked for
\* unless bm holds it
GetBlock(response) ==
    /\ eth.pc = "for"
    /\ eth.logs # <<>>
    /\ eth.sent < MaxBatches
    /\ LET blockHash == Head(eth.logs)
           requests == <<get_block(blockHash.buf)>>
           block == value(response, <<98, 108, 111, 99, 107>>)      \* "block"
           sent == [eth EXCEPT
               !.sent = @ + 1,
               !.asked = [i \in 1..Len(requests) |-> requests[i].id],
               !.looked = <<<<98, 108, 111, 99, 107>>>>,
               !.echoed = @ /\ Len(response) = 1
                            /\ response[1].id = requests[1].id
                            /\ response[1].has = "result"]
       IN  eth' = IF ~blockHash.some
                  THEN [eth EXCEPT !.pc = "done", !.result = "no block hash"]
                  ELSE IF blockHash.buf \in DOMAIN eth.bm
                  THEN [eth EXCEPT !.logs = Tail(@)]
                  ELSE IF block.ok
                  THEN [sent EXCEPT !.logs = Tail(@),
                                    !.bm = map_put(@, blockHash.buf, block.val)]
                  ELSE [sent EXCEPT !.pc = "done", !.result = block.err]
    /\ UNCHANGED <<fd, vd, stream, log, rpos, decoded>>

\* one turn of the loops over the blocks of bm, in the order of their
\* hashes, and over the transactions of a block: the transaction and its
\* receipt are asked for in one batch.  bm holds the blocks that the
\* iterator has yet to leave, each with the transactions yet to be visited.
GetTransaction(response) ==
    /\ eth.pc = "for"
    /\ eth.logs = <<>>
    /\ eth.sent < MaxBatches
    /\ IF DOMAIN eth.bm = {}
       THEN eth' = [eth EXCEPT !.pc = "while"]
       ELSE LET first == CHOOSE h \in DOMAIN eth.bm :
                            \A g \in DOMAIN eth.bm : g = h \/ bytes_less(h, g)
                block == eth.bm[first]
                hash == Head(block.transactions)
                requests == <<get_transaction(hash), get_receipt(hash)>>
                tx == value(response, <<116, 114, 97, 110, 115, 97, 99, 116, 105,
                                        111, 110>>)                \* "transaction"
                receipt == value(response, <<114, 101, 99, 101, 105, 112, 116>>)
                                                                   \* "receipt"
                sent == [eth EXCEPT
                    !.sent = @ + 1,
                    !.asked = [i \in 1..Len(requests) |-> requests[i].id],
                    !.looked = IF tx.ok
                               THEN <<<<116, 114, 97, 110, 115, 97, 99, 116, 105,
                                        111, 110>>,
                                      <<114, 101, 99, 101, 105, 112, 116>>>>
                               ELSE <<<<116, 114, 97, 110, 115, 97, 99, 116, 105,
                                        111, 110>>>>,
                    !.echoed = @ /\ Len(response) = 2
                                 /\ \A i \in 1..2 :
                                        /\ response[i].id = requests[i].id
                                        /\ response[i].has = "result"]
            IN  eth' = IF block.transactions = <<>>
                       THEN [eth EXCEPT
                                !.current_block = block.number,
                                !.bm = [h \in DOMAIN @ \ {first} |-> @[h]]]
                       ELSE IF ~tx.ok
                       THEN [sent EXCEPT !.pc = "done", !.result = tx.err]
                       ELSE IF ~receipt.ok
                       THEN [sent EXCEPT !.pc = "done", !.result = receipt.err]
                       ELSE [sent EXCEPT !.bm[first].transactions = Tail(@)]
    /\ UNCHANGED <<fd, vd, stream, log, rpos, decoded>>

\* a stream made by EthLogsStream::new with min_block 1 or 3 while the
\* latest block of the node is 2, at the first statement of next
InitEth ==
    /\ fd = NoDictionary
    /\ vd = NoDictionary
    /\ stream = <<>>
    /\ log = <<>>
    /\ rpos = 0
    /\ decoded = <<>>
    /\ \E latest_event_block \in {0, 2} :
        eth = [pc |-> "while", latest_block |-> 2,
               current_block |-> latest_event_block, logs |-> <<>>, bm |-> <<>>,
               sent |-> 0, asked |-> <<>>, looked |-> <<>>, echoed |-> TRUE,
               result |-> "none"]

\* the node answers a request under the id of the request or under the name
\* of what was asked for, with a result, with an error or with neither, and
\* a hash is 31 zero bytes and one more byte
SpecEth ==
    InitEth /\ [][LET H256 == {Zeros(31) \o <<n>> : n \in 1..2}
              entries(ids, results) ==
                  {[id |-> id, has |-> "result", result |-> r] :
                        id \in ids, r \in results}
                  \cup {[id |-> id, has |-> h, result |-> <<>>] :
                            id \in ids, h \in {"error", "neither"}}
          IN  \/ \E e \in entries({get_logs.id, <<108, 111, 103, 115>>},
                        {<<>>, <<None>>}
                        \cup {<<SomeBuf(h)>> : h \in H256}
                        \cup {<<SomeBuf(h), SomeBuf(g)>> : h, g \in H256}) :
                    GetLogs(<<e>>)
              \/ \E h \in H256 :
                    \E e \in entries({get_block(h).id, <<98, 108, 111, 99, 107>>},
                        {[number |-> n, transactions |-> t] :
                            n \in 1..2, t \in {<<>>, <<h>>, <<Zeros(32), h>>}}) :
                    GetBlock(<<e>>)
              \/ \E h \in H256 \cup {Zeros(32)} :
                    \E e \in entries({get_transaction(h).id,
                                      <<116, 114, 97, 110, 115, 97, 99, 116, 105,
                                        111, 110>>}, {<<>>}),
                       f \in entries({get_receipt(h).id,
                                      <<114, 101, 99, 101, 105, 112, 116>>}, {<<>>}) :
                    GetTransaction(<<e, f>>)]_vars

(***************************************************************************)
(* Properties.  log[i] is the i-th encode call and decoded[i] the i-th     *)
(* decode call; the i-th value is read in place when the reader stood at   *)
(* the first byte the i-th encode call wrote.                              *)
(***************************************************************************)

\* the bytes the i-th encode call wrote
written(i) == SubSeq(stream, log[i].from + 1, log[i].to)

read_in_place(i) == i <= Len(decoded) /\ decoded[i].from = log[i].from

is_integer(v) == v.t \in {"pos", "neg"}

\* a string "0x..." of one or more hex digits
is_hex_string(v) == v.t = "str" /\ with_0x(v.s) /\ hex_payload(v.s).ok

\* the number of bytes the digits of a hex-string stand for
payload_len(v) == (Len(v.s) - 1) \div 2

hex_digits(h) == SubSeq(h, 3, Len(h))

\* the digits from the first that is not '0' on
significant(digits) ==
    LET nz == {j \in 1..Len(digits) : digits[j] # 48} IN
    IF nz = {} THEN <<>>
    ELSE SubSeq(digits, CHOOSE j \in nz : \A m \in nz : j <= m, Len(digits))

\* equality of values up to leading '0' digits of hex-strings
RECURSIVE same_value(_, _)
same_value(v, w) ==
    IF is_hex_string(v)
    THEN /\ w.t = "str"
         /\ with_0x(w.s)
         /\ significant(hex_digits(w.s)) = significant(hex_digits(v.s))
    ELSE IF v.t \in {"arr", "obj"}
    THEN /\ w.t = v.t
         /\ w.k = v.k
         /\ Len(w.a) = Len(v.a)
         /\ \A j \in 1..Len(v.a) : same_value(v.a[j], w.a[j])
    ELSE w = v

\* C1: every value whose encode call returned Ok and that is read in place
\* decodes, with the same dictionaries, to an equal value, up to leading '0'
\* digits of hex-strings.
RoundTrip ==
    \A i \in 1..Len(decoded) :
        (log[i].st = "ok" /\ read_in_place(i))
            => decoded[i].st = "ok" /\ same_value(log[i].v, decoded[i].val)

\* n is in the range of the signed integers of w bytes
in_signed_range(v, w) ==
    IF v.t = "neg"
    THEN v.s[9 - w] >= 128 /\ \A j \in 1..(8 - w) : v.s[j] = 255
    ELSE v.s[9 - w] < 128 /\ \A j \in 1..(8 - w) : v.s[j] = 0

\* n is in the range of the unsigned integers of w bytes
in_unsigned_range(v, w) == v.t = "pos" /\ \A j \in 1..(8 - w) : v.s[j] = 0

Widths == {1, 2, 4, 8}

signed_width(v) ==
    CHOOSE w \in Widths :
        in_signed_range(v, w) /\ \A u \in Widths : u < w => ~in_signed_range(v, u)

unsigned_width(v) ==
    CHOOSE w \in Widths :
        in_unsigned_range(v, w) /\ \A u \in Widths : u < w => ~in_unsigned_range(v, u)

signed_tag(w) == CASE w = 1 -> 3 [] w = 2 -> 6 [] w = 4 -> 8 [] w = 8 -> 10

unsigned_tag(w) == CASE w = 1 -> 2 [] w = 2 -> 5 [] w = 4 -> 7 [] w = 8 -> 9

\* a float is written as F64 and 8 bytes
FloatForm(i) ==
    log[i].v.t = "f64"
        => log[i].st = "ok" /\ Len(written(i)) = 9 /\ written(i)[1] = 17

\* C2, as the code has it: 0 is written as ZERO alone; every other integer
\* in the range of i64 is written with the signed tag of the narrowest of
\* I8, I16, I32, I64 that holds it and a payload of that width, whatever its
\* sign; an integer above i64::MAX is written as U64 and 8 bytes; a float is
\* written as F64 and 8 bytes.
NarrowestSignedTag ==
    \A i \in 1..Len(log) :
        /\ FloatForm(i)
        /\ is_integer(log[i].v) =>
            /\ log[i].st = "ok"
            /\ IF log[i].v.s = Zeros(8) THEN written(i) = <<18>>
               ELSE IF in_signed_range(log[i].v, 8)
               THEN /\ written(i)[1] = signed_tag(signed_width(log[i].v))
                    /\ Len(written(i)) = 1 + signed_width(log[i].v)
               ELSE written(i)[1] = 9 /\ Len(written(i)) = 9

\* C2 witness: 50000, which fits u16, was written as I32 with 4 bytes
SignedTagForPositive ==
    \E i \in 1..Len(log) :
        log[i].v = SmallInt(50000) /\ written(i) = <<8, 80, 195, 0, 0>>

\* C2 as stated: a non-negative integer is written with the unsigned tag of
\* the narrowest unsigned type that holds it, a negative one with the
\* narrowest signed tag, 0 as ZERO, a float as F64 and 8 bytes.
NarrowestTagBySign ==
    \A i \in 1..Len(log) :
        /\ FloatForm(i)
        /\ is_integer(log[i].v) =>
            /\ log[i].st = "ok"
            /\ IF log[i].v.s = Zeros(8) THEN written(i) = <<18>>
               ELSE IF log[i].v.t = "pos"
               THEN /\ written(i)[1] = unsigned_tag(unsigned_width(log[i].v))
                    /\ Len(written(i)) = 1 + unsigned_width(log[i].v)
               ELSE /\ written(i)[1] = signed_tag(signed_width(log[i].v))
                    /\ Len(written(i)) = 1 + signed_width(log[i].v)

\* the tag of a hex-string of n bytes and the bytes that follow the tag
hex_tag(n) ==
    IF n = 1 THEN 4 ELSE IF n = 2 THEN 12 ELSE IF n <= 4 THEN 13
    ELSE IF n <= 8 THEN 11 ELSE IF n <= 16 THEN 14 ELSE IF n <= 20 THEN 15
    ELSE IF n <= 32 THEN 16 ELSE IF n <= 255 THEN 19 ELSE 23

hex_width(n) ==
    IF n <= 2 THEN n ELSE IF n <= 4 THEN 4 ELSE IF n <= 8 THEN 8
    ELSE IF n <= 16 THEN 16 ELSE IF n <= 20 THEN 20 ELSE IF n <= 32 THEN 32
    ELSE n

\* C3: a hex-string of n bytes is written with the tag that n alone selects
\* and the payload width of that tag: B8, B16, B32, B64, B128, B160, B256
\* up to 32 bytes, DB with the length byte n up to 255, DWB above 255.
HexTagByLength ==
    \A i \in 1..Len(log) :
        is_hex_string(log[i].v) =>
            /\ log[i].st = "ok"
            /\ written(i)[1] = hex_tag(payload_len(log[i].v))
            /\ payload_len(log[i].v) <= 32
                => Len(written(i)) = 1 + hex_width(payload_len(log[i].v))
            /\ hex_tag(payload_len(log[i].v)) = 19
                => /\ written(i)[2] = payload_len(log[i].v)
                   /\ Len(written(i)) = 2 + payload_len(log[i].v)

lower_case(c) == IF c >= 65 /\ c <= 70 THEN c + 32 ELSE c

\* '0' digits up to the width of the tag, then the given digits
zero_padded(digits) ==
    Prefix0x
    \o [j \in 1..(2 * hex_width((Len(digits) + 1) \div 2) - Len(digits)) |-> 48]
    \o digits

\* C4, as the code has it: a hex-string of at most 255 bytes is written, and
\* read in place it decodes to "0x", the '0' digits that fill the width of
\* its tag, and its own digits with the letters A-F in lower case.
HexRoundTripLowerCase ==
    \A i \in 1..Len(log) :
        (is_hex_string(log[i].v) /\ payload_len(log[i].v) <= 255) =>
            /\ log[i].st = "ok"
            /\ read_in_place(i) =>
                /\ decoded[i].st = "ok"
                /\ decoded[i].val =
                    String(zero_padded([j \in 1..(Len(log[i].v.s) - 2) |->
                                           lower_case(log[i].v.s[j + 2])]))

\* C4 witness: an address written with upper-case digits was read back in
\* lower case
HexUpperCaseRead ==
    \E i \in 1..Len(decoded) :
        /\ log[i].v = String(Lit.hexaddr_checksum)
        /\ read_in_place(i)
        /\ decoded[i].val = String(Lit.hexaddr)

\* C4 as stated: a hex-string of at most 255 bytes decodes to "0x", the
\* added '0' digits, and its own digits unchanged.
HexRoundTripUnchanged ==
    \A i \in 1..Len(log) :
        (is_hex_string(log[i].v) /\ payload_len(log[i].v) <= 255) =>
            /\ log[i].st = "ok"
            /\ read_in_place(i) =>
                /\ decoded[i].st = "ok"
                /\ decoded[i].val = String(zero_padded(hex_digits(log[i].v.s)))

\* C5: a value whose encode call returned Ok and that is read in place is
\* decoded, and the reader stops at the last byte that call wrote, whatever
\* bytes follow.
SelfDelimiting ==
    \A i \in 1..Len(decoded) :
        (log[i].st = "ok" /\ read_in_place(i))
            => decoded[i].st = "ok" /\ decoded[i].to = log[i].to

\* a string that does not take the hex path and that vd does not hold
is_plain_string(v) == v.t = "str" /\ ~with_0x(v.s) /\ ~find_str(vd, v.s).some

\* C6: a non-hex string of L bytes that the value dictionary does not hold
\* is written as DS, the byte L and its bytes when L <= 255, as DWS, L as a
\* little-endian u16 and its bytes when L > 255, and read in place it
\* decodes to the same string.
PlainStringForm ==
    \A i \in 1..Len(log) :
        is_plain_string(log[i].v) =>
            /\ log[i].st = "ok"
            /\ written(i) =
                (IF Len(log[i].v.s) <= 255
                 THEN <<20, Len(log[i].v.s)>>
                 ELSE <<24, Len(log[i].v.s) % 256, Len(log[i].v.s) \div 256>>)
                \o log[i].v.s
            /\ read_in_place(i)
                => decoded[i].st = "ok" /\ decoded[i].val = log[i].v

\* C7: an array of n elements whose encode call returned Ok starts with DA
\* and the byte n when n <= 255, with DWA and n as a little-endian u16 when
\* n > 255, and read in place it decodes to the same array.
ArrayForm ==
    \A i \in 1..Len(log) :
        (log[i].v.t = "arr" /\ log[i].st = "ok") =>
            /\ IF Len(log[i].v.a) <= 255
               THEN SubSeq(written(i), 1, 2) = <<21, Len(log[i].v.a)>>
               ELSE SubSeq(written(i), 1, 3) =
                       <<25, Len(log[i].v.a) % 256, Len(log[i].v.a) \div 256>>
            /\ read_in_place(i)
                => decoded[i].st = "ok" /\ decoded[i].val = log[i].v

\* C8: an object of more than 255 entries is written as DWO with its number
\* of entries as a little-endian u16, and the count byte after a DO tag is
\* the number of entries of the object.
LongObjectForm ==
    \A i \in 1..Len(log) :
        (log[i].v.t = "obj" /\ log[i].st = "ok") =>
            /\ Len(log[i].v.k) > 255
                => SubSeq(written(i), 1, 3) =
                       <<26, Len(log[i].v.k) % 256, Len(log[i].v.k) \div 256>>
            /\ written(i)[1] = 22 => written(i)[2] = Len(log[i].v.k)

\* exactly the keys "hex" and "type", "type" the string "BigNumber" and
\* "hex" a hex-string
is_big_number(v) ==
    /\ v.t = "obj"
    /\ v.k = <<Lit.hex, Lit.type>>
    /\ v.a[2] = String(Lit.BigNumber)
    /\ is_hex_string(v.a[1])

\* C9: an object whose encode call returned Ok is written as a byte blob,
\* DB, exactly when it is a BigNumber object; every other object is written
\* as an object and read in place decodes to an object.
BigNumberShape ==
    \A i \in 1..Len(log) :
        (log[i].v.t = "obj" /\ log[i].st = "ok") =>
            /\ written(i)[1] = 19 <=> is_big_number(log[i].v)
            /\ (~is_big_number(log[i].v) /\ read_in_place(i))
                => decoded[i].st = "ok" /\ decoded[i].val.t = "obj"

\* the bytes of s from position `at` on start with p
has_at(s, at, p) ==
    Len(s) >= at + Len(p) - 1 /\ SubSeq(s, at, at + Len(p) - 1) = p

\* C10: in an object written as DO whose first key the field dictionary
\* does not hold, the count byte is followed by DS with the flag 0x20
\* clear, the length of the key as a byte, and the bytes of the key.
InlineKey ==
    \A i \in 1..Len(log) :
        /\ log[i].v.t = "obj"
        /\ log[i].st = "ok"
        /\ written(i)[1] = 22
        /\ Len(log[i].v.k) >= 1
        /\ ~find_str(fd, log[i].v.k[1]).some
        => has_at(written(i), 3, <<20, Len(log[i].v.k[1])>> \o log[i].v.k[1])

\* the result of writing v and reading it back with an empty field
\* dictionary and the value dictionary of the run
without_fd(v) == decode(encode(v, NoDictionary, vd).out, 0, NoDictionary, vd)

same_result(r, q) == r.st = "ok" /\ q.st = "ok" /\ r.val = q.val

\* C11: an object with a key that the field dictionary holds, written and
\* read in place with that dictionary, decodes to the value that writing
\* and reading it with an empty field dictionary yields.
FieldDictionaryTransparent ==
    \A i \in 1..Len(decoded) :
        /\ log[i].v.t = "obj"
        /\ log[i].st = "ok"
        /\ \E j \in 1..Len(log[i].v.k) : find_str(fd, log[i].v.k[j]).some
        /\ read_in_place(i)
        => same_result(decoded[i], without_fd(log[i].v))

\* the object {"alpha": 10}
AlphaTen == Object(<<Lit.alpha>>, <<SmallInt(10)>>)

\* C12, as the code has it: with a field dictionary that maps alpha to 1,
\* {"alpha": 10} is written as the 6 bytes 16 01 42 01 03 0A: the DO tag,
\* the count 1, a byte of its own for the key with bits 7:6 = 01 over the
\* code of U8, the id 1, and then the value with its own tag I8 and its
\* payload 0A; read in place it decodes to {"alpha": 10}.
AlphaTenSixBytes ==
    \A i \in 1..Len(log) :
        (log[i].v = AlphaTen /\ find_str(fd, Lit.alpha) = SomeId(1)) =>
            /\ log[i].st = "ok"
            /\ written(i) = <<22, 1, 66, 1, 3, 10>>
            /\ read_in_place(i)
                => decoded[i].st = "ok" /\ decoded[i].val = AlphaTen

\* C12 witness: {"alpha": 10} was written with the id of alpha and read back
AlphaTenRead ==
    \E i \in 1..Len(decoded) :
        /\ log[i].v = AlphaTen
        /\ find_str(fd, Lit.alpha) = SomeId(1)
        /\ Len(written(i)) = 6
        /\ read_in_place(i)
        /\ decoded[i].val = AlphaTen

\* C12 as stated: with a field dictionary that maps alpha to 1,
\* {"alpha": 10} is written as 4 bytes, the bits 7:6 = 01 on the tag byte
\* of the value, then the id 1 and the payload 0A, and decodes to
\* {"alpha": 10}.
AlphaTenFourBytes ==
    \A i \in 1..Len(log) :
        (log[i].v = AlphaTen /\ find_str(fd, Lit.alpha) = SomeId(1)) =>
            /\ log[i].st = "ok"
            /\ Len(written(i)) = 4
            /\ BitAnd(written(i)[3], 192) = 64
            /\ has_at(written(i), Len(written(i)) - 1, <<1, 10>>)
            /\ read_in_place(i)
                => decoded[i].st = "ok" /\ decoded[i].val = AlphaTen

\* the hex-string "0x100"
Hex100 == String(<<48, 120, 49, 48, 48>>)

\* C13, as the code has it: "0x100" is written as the 3 bytes 0C 01 00,
\* the tag B16 and the two payload bytes in the order of the hex digits,
\* and read in place it decodes to "0x0100".
Hex100Wire ==
    \A i \in 1..Len(log) :
        log[i].v = Hex100 =>
            /\ log[i].st = "ok"
            /\ written(i) = <<12, 1, 0>>
            /\ read_in_place(i)
                => /\ decoded[i].st = "ok"
                   /\ decoded[i].val = String(<<48, 120, 48, 49, 48, 48>>)

\* C13 witness: "0x100" was written and read back as "0x0100"
Hex100Read ==
    \E i \in 1..Len(decoded) :
        /\ log[i].v = Hex100
        /\ read_in_place(i)
        /\ decoded[i].val = String(<<48, 120, 48, 49, 48, 48>>)
        /\ decoded[i].to = log[i].to

\* C13 as stated: "0x100" is written as the 3 bytes 0C 00 01 and decodes
\* to "0x0100".
Hex100WireSwapped ==
    \A i \in 1..Len(log) :
        log[i].v = Hex100 =>
            /\ log[i].st = "ok"
            /\ written(i) = <<12, 0, 1>>
            /\ read_in_place(i)
                => /\ decoded[i].st = "ok"
                   /\ decoded[i].val = String(<<48, 120, 48, 49, 48, 48>>)

\* an even count of hex digits, none of them an upper-case letter
even_lower_case(v) ==
    /\ Len(v.s) % 2 = 0
    /\ \A j \in 3..Len(v.s) : lower_case(v.s[j]) = v.s[j]

\* C14: a hex-string of more than 255 bytes, with an even count of
\* lower-case digits, is written, and read in place it decodes to the same
\* string and the reader stops at the last byte written for it.
LongHexRoundTrip ==
    \A i \in 1..Len(log) :
        /\ is_hex_string(log[i].v)
        /\ payload_len(log[i].v) > 255
        /\ even_lower_case(log[i].v)
        => /\ log[i].st = "ok"
           /\ written(i)[1] = 23
           /\ read_in_place(i)
               => /\ decoded[i].st = "ok"
                  /\ decoded[i].val = log[i].v
                  /\ decoded[i].to = log[i].to

\* the number of bytes of a string or byte blob, of elements of an array, of
\* entries of an object
size_of(v) ==
    IF is_hex_string(v) THEN payload_len(v)
    ELSE IF v.t = "str" THEN Len(v.s)
    ELSE IF v.t \in {"arr", "obj"} THEN Len(v.a)
    ELSE 0

\* C15: the encode call of a string or byte blob of more than 65535 bytes,
\* or of an array or object of more than 65535 elements, returns an error.
TooLongIsError ==
    \A i \in 1..Len(log) : size_of(log[i].v) > 65535 => log[i].st = "err"

\* the i-th decode call read the bytes of a peer, from their first byte
received(i) == read_in_place(i) /\ log[i].st = "wire"

\* the call returned an error: no value, and the reader where it was
is_error(r) == r.st = "err" /\ r.val = Null /\ r.to = r.from

\* C16: decoding a DS tag with the flag 0x20 set and a u32 id that the
\* value dictionary does not hold returns an error.
DictionaryMissIsError ==
    \A i \in 1..Len(decoded) :
        (received(i) /\ written(i) \in Wire.miss) => is_error(decoded[i])

\* C17: decode returns an error and no value when the input ends before
\* the value is complete, when a tag has a code of 27 .. 30, when an inline
\* object key has a tag other than DS, and when an object entry carries a
\* field id that the field dictionary does not hold, at any depth.
WireErrorIsError ==
    \A i \in 1..Len(decoded) :
        (received(i)
            /\ written(i) \in Wire.cut \cup Wire.reserved \cup Wire.key \cup Wire.dangling)
        => is_error(decoded[i])

\* C17 witness: an input that ends inside an object in an array in an
\* object was read
WireErrorRead ==
    /\ Len(decoded) = 1
    /\ received(1)
    /\ written(1) = <<22, 1, 20, 1, 97, 21, 2, 0, 22, 1, 20, 1, 98>>
    /\ is_error(decoded[1])

\* C18: a string payload that is not UTF-8, in DS, in DWS or in an inline
\* object key, makes decode return an error: no panic and no value.
InvalidUtf8IsError ==
    \A i \in 1..Len(decoded) :
        (received(i) /\ written(i) \in Wire.utf8) => is_error(decoded[i])

\* C19: an encode call that returned an error has written none of the
\* bytes of its value to the writer.
NoPartialOutput ==
    \A i \in 1..Len(log) : log[i].st = "err" => log[i].to = log[i].from

\* C20: the two lookups of the dictionary are inverse to each other:
\* find_str(s) is the id i exactly when get(i) is the string s.
LookupsInverse ==
    /\ \A s \in DOMAIN fd.k : get(fd, fd.k[s]) = SomeBuf(s)
    /\ \A i \in DOMAIN fd.v : find_str(fd, fd.v[i]) = SomeId(i)

\* C21: the text that write gives for a dictionary is read back by from as
\* an equal dictionary: the same ids, each with the same string, and the
\* same strings, each with the same id.
TextRoundTrip ==
    Len(log) > 0 /\ log[Len(log)].st = "write"
        => from_text(written(Len(log)), new_dictionary) = [ok |-> TRUE, dict |-> fd]

\* the last call on the dictionary, when there was one
last_call == IF Len(log) = 0 THEN [v |-> Null, st |-> "none"] ELSE log[Len(log)]

\* C22: learn is idempotent: learning once more, or twice more, the value
\* that was just learned leaves both maps of the dictionary as they are.
LearnIdempotent ==
    last_call.st = "learn"
        => /\ learn(fd, last_call.v, 1) = fd
           /\ learn(learn(fd, last_call.v, 1), last_call.v, 1) = fd

\* a value with a nested object has been learned by a dictionary that did
\* not hold its keys, the deepest one ("zeta") included
LearnedNested ==
    /\ last_call.st = "learn"
    /\ last_call.v.t = "obj"
    /\ Cardinality(DOMAIN fd.k) >= 4
    /\ Lit.alpha \notin DOMAIN fd.k
    /\ \E s \in DOMAIN fd.k : s \notin Calls.items /\ fd.k[s] = 4

\* the keys of the objects of a value, at every depth, in the order in which
\* learn comes to them
RECURSIVE object_keys(_, _)
object_keys(input, i) ==
    IF input.t \notin {"arr", "obj"} \/ i > Len(input.a) THEN <<>>
    ELSE (IF input.t = "obj" THEN <<input.k[i]>> ELSE <<>>)
            \o object_keys(input.a[i], 1) \o object_keys(input, i + 1)

\* what learn(input) may do to a dictionary
learn_adds_new_keys(d, e, input) ==
    LET keys == object_keys(input, 1)
        new == {keys[j] : j \in 1..Len(keys)} \ DOMAIN d.k
    IN
    /\ DOMAIN e.k = DOMAIN d.k \cup new
    /\ \A s \in DOMAIN d.k : e.k[s] = d.k[s]
    /\ \A i \in DOMAIN d.v : i \in DOMAIN e.v /\ e.v[i] = d.v[i]
    /\ \A s \in new : get(e, e.k[s]) = SomeBuf(s)
    /\ Cardinality(DOMAIN e.v) = Cardinality(DOMAIN d.v) + Cardinality(new)
    /\ \A i, j \in 1..Len(keys) :
            /\ keys[i] \in new /\ keys[j] \in new
            /\ i < j /\ \A m \in 1..(i - 1) : keys[m] # keys[i]
            => e.k[keys[i]] <= e.k[keys[j]]

\* C23: learn adds the object keys of the value that the dictionary did not
\* hold, those of nested objects and of objects in arrays included, in the
\* order of iteration, and nothing else: every entry there was keeps its id
\* and its string, and the size grows by the number of new distinct keys.
LearnAddsNewKeys ==
    [][Len(log') = Len(log) + 1 /\ log'[Len(log')].st = "learn"
        => learn_adds_new_keys(fd, fd', log'[Len(log')].v)]_vars

\* the lines of a text: what is between its '\n's
RECURSIVE lines_of(_)
lines_of(text) ==
    IF \A j \in 1..Len(text) : text[j] # 10
    THEN (IF Len(text) = 0 THEN {} ELSE {text})
    ELSE LET nl == CHOOSE j \in 1..Len(text) : text[j] = 10 /\ \A m \in 1..(j - 1) : text[m] # 10
         IN  {SubSeq(text, 1, nl - 1)} \cup lines_of(SubSeq(text, nl + 1, Len(text)))

\* a line starts, after white space, with a decimal number and a ':'
has_u32_prefix(line) ==
    \E c \in 2..Len(trim(line)) :
        /\ trim(line)[c] = 58
        /\ c <= 10
        /\ \A j \in 1..(c - 1) : trim(line)[j] \in 48..57

\* C24: reading a dictionary from a text fails when a line that is neither
\* blank nor a '#' comment does not start with a u32 and a colon, a line
\* without any colon included.
FromRejectsBadLine ==
    last_call.st = "from"
        => \A line \in lines_of(last_call.v.s) :
                trim(line) = <<>> \/ trim(line)[1] = 35 \/ has_u32_prefix(line)

\* C25: after get_dictionary and any calls of insert and learn on what it
\* returned, every built-in name is found under the id of the table and
\* every id of the table resolves to its name.
BuiltInIdsKept ==
    (\E i \in 1..Len(log) :
        /\ log[i].st = "get_dictionary"
        /\ \A j \in (i + 1)..Len(log) : log[j].st \in {"insert", "learn"})
    => \A n \in 1..Len(DICTIONARY) :
            /\ find_str(fd, DICTIONARY[n][1]) = SomeId(DICTIONARY[n][2])
            /\ get(fd, DICTIONARY[n][2]) = SomeBuf(DICTIONARY[n][1])

\* C26: an integer in the range of i64 is written as the byte 12 (ZERO)
\* when it is 0, and otherwise as the tag of the narrowest of I8, I16, I32,
\* I64 that holds it and its two's complement, little-endian, in 1, 2, 4 or
\* 8 bytes; read in place, it decodes to a Number of the same value.
SignedIntegerBytes ==
    \A i \in 1..Len(log) :
        (is_integer(log[i].v) /\ in_signed_range(log[i].v, 8)) =>
            /\ log[i].st = "ok"
            /\ written(i) =
                    IF log[i].v.s = Zeros(8) THEN <<18>>
                    ELSE <<signed_tag(signed_width(log[i].v))>>
                         \o Reverse(SubSeq(log[i].v.s, 9 - signed_width(log[i].v), 8))
            /\ read_in_place(i) => decoded[i].st = "ok" /\ decoded[i].val = log[i].v

\* C26 witness: -300 was written as 06 D4 FE and read back as -300
MinusThreeHundredRead ==
    \E i \in 1..Len(decoded) :
        /\ log[i].v = NegInt(NegI64(300))
        /\ written(i) = <<6, 212, 254>>
        /\ read_in_place(i)
        /\ decoded[i].val = NegInt(NegI64(300))

\* a string that does not take the hex path, of at most 255 bytes, that the
\* value dictionary holds
is_dictionary_string(v) ==
    v.t = "str" /\ ~with_0x(v.s) /\ Len(v.s) <= 255 /\ find_str(vd, v.s).some

\* DS with the flag 0x20 and the id of the string as a little-endian u32
by_value_id(v) == <<52>> \o to_le_bytes(find_str(vd, v.s).id, 4)

\* C27: a non-hex string of at most 255 bytes that the value dictionary
\* holds under the id i is written as 5 bytes, the DS tag with the bit 0x20
\* and i as a little-endian u32, as an element of an array too, and read in
\* place it decodes to the same string; a hex-string that the value
\* dictionary holds is written as it is without a dictionary.
DictionaryStringFiveBytes ==
    \A i \in 1..Len(log) :
        /\ is_dictionary_string(log[i].v) =>
                /\ log[i].st = "ok"
                /\ written(i) = by_value_id(log[i].v)
                /\ read_in_place(i) => decoded[i].st = "ok" /\ decoded[i].val = log[i].v
        /\ (log[i].v.t = "arr" /\ Len(log[i].v.a) <= 255) =>
                \A j \in 1..Len(log[i].v.a) :
                    is_dictionary_string(log[i].v.a[j]) =>
                        /\ log[i].st = "ok"
                        /\ has_at(written(i),
                                  Len(encode(Array(SubSeq(log[i].v.a, 1, j - 1)),
                                             fd, vd).out) + 1,
                                  by_value_id(log[i].v.a[j]))
                        /\ read_in_place(i) =>
                                /\ decoded[i].st = "ok"
                                /\ decoded[i].val.a[j] = log[i].v.a[j]
        /\ (is_hex_string(log[i].v) /\ find_str(vd, log[i].v.s).some) =>
                /\ log[i].st = "ok"
                /\ written(i) = encode(log[i].v, NoDictionary, NoDictionary).out
                /\ BitAnd(written(i)[1], 32) = 0

\* C27 witness: with omega under the id 65536, ["alpha", "omega", "Hello",
\* "one"] was written with omega as 34 00 00 01 00 and read back in place
DictionaryStringInArrayRead ==
    \E i \in 1..Len(decoded) :
        /\ log[i].v.t = "arr"
        /\ Len(log[i].v.a) = 4
        /\ find_str(vd, Lit.omega) = SomeId(65536)
        /\ has_at(written(i), 8, <<52, 0, 0, 1, 0>>)
        /\ read_in_place(i)
        /\ decoded[i].st = "ok"
        /\ decoded[i].val = log[i].v

\* the bits 7:6 over the code of the unsigned type and the id,
\* little-endian, in the least of 1, 2 and 4 bytes that hold it
by_field_id(n) ==
    IF n <= 255 THEN <<64 + 2, n>>
    ELSE IF n <= 65535 THEN <<128 + 5>> \o to_le_bytes(n, 2)
    ELSE <<192 + 7>> \o to_le_bytes(n, 4)

\* C28: for a key that the field dictionary holds under the id n, what
\* encode_object writes for the entry is a byte with the bits 7:6 = 01 and n
\* as a u8 when n <= 255, 10 and n as a little-endian u16 when n <= 65535,
\* 11 and n as a little-endian u32 otherwise, and then the value; read in
\* place, the entry decodes to the key of the id n and the value.
FieldIdWidth ==
    \A i \in 1..Len(log) :
        (log[i].v.t = "obj" /\ \A j \in 1..Len(log[i].v.k) : find_str(fd, log[i].v.k[j]).some)
        => /\ log[i].st = "ok"
           /\ written(i)[1] = 22
           /\ \A j \in 1..Len(log[i].v.k) :
                LET before == Len(encode(Object(SubSeq(log[i].v.k, 1, j - 1),
                                                SubSeq(log[i].v.a, 1, j - 1)), fd, vd).out)
                    id == by_field_id(find_str(fd, log[i].v.k[j]).id)
                IN  /\ has_at(written(i), before + 1, id)
                    /\ has_at(written(i), before + 1 + Len(id),
                              encode(log[i].v.a[j], fd, vd).out)
                    /\ BitAnd(id[1], 192) = (CASE Len(id) = 2 -> 64 [] Len(id) = 3 -> 128
                                                [] Len(id) = 5 -> 192)
           /\ read_in_place(i) => decoded[i].st = "ok" /\ decoded[i].val = log[i].v

\* C28 witness: {"alpha": 1, "gamma": "beta", "omega": [null]}, with the
\* ids 1, 256 and 65536, was written with ids of 1, 2 and 4 bytes and read
\* back in place
FieldIdsOfEveryWidthRead ==
    \E i \in 1..Len(decoded) :
        /\ log[i].v.t = "obj"
        /\ log[i].v.k = <<Lit.alpha, Lit.gamma, Lit.omega>>
        /\ has_at(written(i), 3, <<66, 1>>)
        /\ \E at \in 1..Len(written(i)) : has_at(written(i), at, <<133, 0, 1>>)
        /\ \E at \in 1..Len(written(i)) : has_at(written(i), at, <<199, 0, 0, 1, 0>>)
        /\ read_in_place(i)
        /\ decoded[i].val = log[i].v

\* C29: a call of encode that returned Ok has delivered the whole
\* encoding of its value to the writer, in order.
OkMeansAllWritten ==
    \A i \in 1..Len(log) :
        log[i].st = "ok" => written(i) = encode(log[i].v, fd, vd).out

\* C30: every lookup of next is made under the id of a request of the batch
\* that was sent, and while the node has answered every request with a
\* result under the id of the request, no lookup has ended in not-found
LookedUpUnderRequestId ==
    /\ \A i \in 1..Len(eth.looked) :
            \E j \in 1..Len(eth.asked) : eth.looked[i] = eth.asked[j]
    /\ eth.echoed => eth.result # "not_found"

====
